---- MODULE Spec2Model ----
(***************************************************************************)
(* SpifyRFB: the RFB protocol engine of protocol/src/server/mod.rs, one    *)
(* task per viewer connection, with the zlib stream registry of            *)
(* protocol/src/server/encoding_zlib.rs.                                   *)
(*                                                                         *)
(* A viewer connection is a byte stream.  The handshake reads fixed-size   *)
(* items; the Serving loop reads an opcode byte and then the number of     *)
(* payload bytes the code reads for that opcode.  The client's bytes are   *)
(* kept as a queue (rx) together with the offsets at which the client's    *)
(* messages start, so that what the server takes for an opcode can be      *)
(* compared with what the client sent as one.                              *)
(*                                                                         *)
(* Further parts have their own specifications over their own variables:   *)
(* the WebSocket bridge proxy_websocket of websocket.rs (SpecBridge,       *)
(* SpecBridgeFair), create_frame with the bridge's frame decoder            *)
(* (SpecFramer), the Hextile encoder of encoding_hextile.rs (SpecHextile), *)
(* the tile loops of the Hextile and ZRLE encoders over whole framebuffers *)
(* (SpecTiling), the pixel transcoding of rectangle_framebuffer_update     *)
(* (SpecTranscode), GetBits of parser.rs (SpecBits), the HTTP status       *)
(* routes of the daemon and of the WebSocket service (SpecApi), the        *)
(* daemon's session map with its IPC server (SpecDaemon), the framing of   *)
(* IPC packets (SpecPackets), the IPC link between the worker's            *)
(* ipc_client.rs and the daemon (SpecLink), the four get_pixel_data        *)
(* encoders on one rectangle (SpecEncoders), the guards of the shared      *)
(* state (SpecLocks), the worker's accept loops and viewer tasks           *)
(* (SpecTasks), and the bridge with an RFB server that closes              *)
(* (SpecBridgeEof).  In each specification the other parts stand still.    *)
(***************************************************************************)
EXTENDS Integers, Sequences, FiniteSets, TLC

\* ------------------------------------------------------------------ bounds
MaxMsgs == 2
MaxEncodings == 1
MaxCutText == 1
ScreenWidth == 2
ScreenHeight == 1

\* The viewer connections of the model.  Connections share only the stream
\* registry, under ids that are unique to each.
Conns == {1, 2}

\* ------------------------------------------------------- program constants
SET_PIXEL_FORMAT == 0
SET_ENCODINGS == 2
FRAME_BUFFER_UPDATE_REQUEST == 3
KEY_EVENT == 4
POINTER_EVENT == 5
CLIENT_CUT_TEXT == 6
FRAME_BUFFER_UPDATE == 0
RAW == 0
HEX_TILE == 5
ZLIB == 6
ZRLE == 16
Z_OK == 0
Z_BUF_ERROR == -5

\* "RFB 003.008\n"
protocol_version == <<82, 70, 66, 32, 48, 48, 51, 46, 48, 48, 56, 10>>

\* ------------------------------------------------------------ byte helpers
Byte == 0..255

U16(x) == <<(x \div 256) % 256, x % 256>>

U32(x) == <<(x \div 16777216) % 256, (x \div 65536) % 256, (x \div 256) % 256, x % 256>>

BeU16(hi, lo) == hi * 256 + lo

Take(s, n) == SubSeq(s, 1, n)

Drop(s, n) == SubSeq(s, n + 1, Len(s))

\* ------------------------------------------------------------------- state
VARIABLES
    auth,           \* CreateOptions.auth: <<>> (None) or <<key>> (Some(Vnc(key)))
    wm,             \* the WindowManager variant of the build: "X11" or "WIN32"
    pc,             \* pc[c]: where connection c's task stands
    rx,             \* rx[c]: bytes the client has sent and the server has not read
    consumed,       \* consumed[c]: number of Serving bytes the server has read
    starts,         \* starts[c]: Serving stream offsets at which client messages start
    sent,           \* number of Serving messages sent by all clients (bounded)
    tx,             \* tx[c]: what the server has written to the client, in order
    challenge,      \* challenge[c]: the VNC challenge written to c, or <<>>
    hs,             \* hs[c]: what the handshake has read from c, in order
    pixel_format,   \* pixel_format[c]: the session's negotiated PixelFormat
    zstream_id,     \* zstream_id[c]: the session's stream id, 0 before Serving
    LIVE_ZSTREAMS,  \* the registry: stream id -> z_stream
    handled,        \* handled[c]: the opcodes the Serving loop has dispatched
    \* proxy_websocket (websocket.rs): one bridged WebSocket client
    ws_pc,              \* where proxy_websocket stands
    client_rx,          \* bytes that reached the bridge and it has not read
    in_flight,          \* bytes the client has sent that have not arrived yet
    ws_sent,            \* the frames the client has sent, in order
    pending_writes,     \* frames queued for the client
    fin_payload,        \* the fragment accumulation buffer
    fin_payload_opcode, \* the opcode kept for the accumulated fragments
    ws_handled,         \* <<opcode, payload>> pairs that reached the dispatch
    remote_written,     \* the payloads written to the RFB socket, in order
    remote_rx,          \* bytes the RFB socket holds for the bridge
    client_written,     \* the frames written to the WebSocket client, in order
    remote_shutdown,    \* remote.shutdown() has been called
    client_closed,      \* the WebSocket client has closed its socket
    \* websocket::create_frame and the bridge's frame decoder, as functions
    frame_payload,      \* the payload handed to create_frame
    frame_opcode,       \* the opcode handed to create_frame
    websocket_frame,    \* the frame create_frame returned, or <<>>
    decoded,            \* what the decoder recovered from it, or <<>>
    \* encoding_hextile::encode
    hextile_framebuffer, \* the FrameBuffer handed to encode
    hextile_ctr,        \* the tile the loop is at; -1 before encode is called
    solid_previous_tile,
    previous_scan_line,
    solid_tile,
    hextiles,           \* the bytes emitted so far
    hextile_pixels,     \* tile_pixels of the loop turn done last
    overflow_checks,    \* the build traps integer overflow (dev profile) or wraps (release)
    \* encoding_zrle::encode
    zrle_framebuffer,   \* the FrameBuffer handed to encode, encoded_pixels holding the CPIXELs
    zrletile_ctr,       \* the tile the loop is at; -1 before encode is called, -2 after a panic
    zrletile_pixels,    \* tile_pixels of the loop turn done last
    zrle_tiles,         \* the bytes emitted so far
    \* the transcoding loop of rectangle_framebuffer_update
    tc_pixelformat,     \* the PixelFormat handed in
    tc_capture,         \* the capture: four bytes (B, G, R, X) per pixel
    tc_pixel_data,      \* pixel_data after the loop
    tc_pc,              \* "Idle", "Captured", "Transcoded" or "Panicked"
    \* parser::GetBits for u8, u16 and u64
    gb_width,           \* the width of the integer type: 8, 16 or 64
    gb_integer,         \* the integer handed to get_bits, as bytes from the low one; <<>> if none
    gb_bits,            \* the bit vector: what get_bits returned, or what from_bits is handed
    gb_is_le,           \* get_bits_le and is_le = true, or get_bits_be and is_le = false
    gb_from_bits,       \* the integer from_bits returned, as bytes from the low one; <<>> before
    \* the HTTP status routes of the daemon (webapi) and of the WebSocket service
    paired_servers,     \* config.paired_servers: the digests of the paired servers' keys
    api_windows,        \* the build is the Windows one
    api_service,        \* "webapi" (the daemon, port 12000), "websocket" (the worker) or "none"
    api_request,        \* the request read
    api_response,       \* the response written; <<>> before
    api_action,         \* what the request made the service do
    \* the daemon: the sessions it tracks and its IPC server
    WTS_SESSIONS,       \* pid -> the SpifyRFBProtocolInstance of the worker spawned with that pid
    spawned,            \* the pids of spawn_spifyrfb_protcol whose create_wts_session is still to run
    ipc_pc,             \* ipc_pc[k]: "Free", "Open" (handle_client loops), "Ended" or "Panicked"
    ipc_owner,          \* ipc_owner[k]: the pid of the process at the other end of connection k
    ipc_unread,         \* ipc_unread[k]: the messages written by the peer and not yet read
    client_pid,         \* client_pid[k]: <<>> for None, <<pid>> for Some(pid)
    PENDING_WRITES,     \* PENDING_WRITES[k]: the payloads queued for the endpoint of k
    ipc_handled,        \* ipc_handled[k]: the messages handle_client has matched, in order
    ipc_fired,          \* the events event::fire was called with, in order
    \* construct_payload of the IPC client and server, and the reading of what it makes
    cp_opcode,          \* the opcode construct_payload is handed
    cp_payload,         \* the payload construct_payload is handed, as bytes
    cp_written,         \* the bytes written to the peer: the packet and the PONG after it
    cp_frames,          \* the frames the peer's loop reads from cp_written
    \* a worker's IPC client (ipc_client::connect) and the daemon's handle_client for it
    link_pc,            \* link_pc[side]: where the loop of the side is
    link_header,        \* link_header[side]: the two bytes read, while the payload is awaited
    link_pending,       \* link_pending[side]: PENDING_WRITES of the worker, of the endpoint in the daemon
    link_snapshot,      \* link_snapshot[side]: the copy of the queue that the write branch writes
    link_wire,          \* link_wire[side]: the bytes written to the side and not yet arrived
    link_rx,            \* link_rx[side]: the bytes arrived at the side and not yet read
    link_closed,        \* link_closed[side]: the peer of the side has closed the socket
    link_sent,          \* link_sent[side]: every byte written to the side, in order
    link_taken,         \* link_taken[side]: every byte the side's reads took as header or payload, in order
    link_read,          \* link_read[side]: the opcodes of the frames the side has matched, in order
    link_pushed,        \* link_pushed[side]: every packet appended to the side's queue, in order
    link_written,       \* link_written[side]: every packet the side has written, in order
    eof_observed,       \* a read of the worker has met the end of the stream
    create_pc,          \* server::create of the worker: "Bound", "HelloSent" or "Spawned"
    websocket_pc,       \* websocket::create of the worker: "None", "Bound" or "IpUpdateSent"
    pings,              \* the calls of send_ping made
    \* encoders
    enc_framebuffer,    \* the FrameBuffer handed to an encoder
    enc_stream,         \* the viewer's z_stream in the registry
    enc_encoder,        \* which get_pixel_data ran, "" before the call
    enc_rectangle,      \* the FrameBufferRectangle returned, <<>> before the call
    \* locks
    lock_pc,            \* task -> the function it is in, "" between two calls
    lock_held,          \* task -> the guards it holds, as <<lock, mode>>
    \* tasks
    rfb_listener,       \* server::create's accept loop
    ws_listener,        \* the task of websocket::create and its accept loop
    viewer_task,        \* viewer -> how its task stands
    ws_accepted,        \* bridge tasks spawned by websocket::create
    deflates,           \* viewer -> deflate calls that returned
    zstreams_poisoned,  \* a task panicked holding LIVE_ZSTREAMS' write guard
    worker_process,     \* "running", or "exited" once main returned
    \* the RFB side of the bridge closing
    rfb_eof,            \* the RFB socket has nothing more to give but what remote_rx holds
    eof_at              \* frames written to the client before remote.read first returned 0; -1 before

rfbvars == <<auth, wm, pc, rx, consumed, starts, sent, tx, challenge, hs, pixel_format, zstream_id, LIVE_ZSTREAMS, handled>>

wsvars == <<ws_pc, client_rx, in_flight, ws_sent, pending_writes, fin_payload, fin_payload_opcode, ws_handled, remote_written, remote_rx, client_written, remote_shutdown, client_closed>>

framevars == <<frame_payload, frame_opcode, websocket_frame, decoded>>

hextilevars == <<hextile_framebuffer, hextile_ctr, solid_previous_tile, previous_scan_line, solid_tile, hextiles, hextile_pixels, overflow_checks>>

zrlevars == <<zrle_framebuffer, zrletile_ctr, zrletile_pixels, zrle_tiles>>

\* The parts that stand still in the specifications of the four parts above.
transcodevars == <<tc_pixelformat, tc_capture, tc_pixel_data, tc_pc>>

bitsvars == <<gb_width, gb_integer, gb_bits, gb_is_le, gb_from_bits>>

apivars == <<paired_servers, api_windows, api_service, api_request, api_response, api_action>>

ipcvars == <<WTS_SESSIONS, spawned, ipc_pc, ipc_owner, ipc_unread, client_pid, PENDING_WRITES, ipc_handled, ipc_fired>>

packetvars == <<cp_opcode, cp_payload, cp_written, cp_frames>>

linkvars == <<link_pc, link_header, link_pending, link_snapshot, link_wire, link_rx, link_closed, link_sent, link_taken, link_read, link_pushed, link_written, eof_observed, create_pc, websocket_pc, pings>>

encvars == <<enc_framebuffer, enc_stream, enc_encoder, enc_rectangle>>

lockvars == <<lock_pc, lock_held>>

taskvars == <<rfb_listener, ws_listener, viewer_task, ws_accepted, deflates, zstreams_poisoned, worker_process>>

eofvars == <<rfb_eof, eof_at>>

othervars == <<zrlevars, transcodevars, bitsvars, apivars, ipcvars, packetvars, linkvars, encvars, lockvars, taskvars, eofvars>>

\* What the steps of each of these parts leave alone.
zrle_rest == <<rfbvars, wsvars, framevars, hextilevars, transcodevars, bitsvars, apivars, ipcvars, packetvars, linkvars, encvars, lockvars, taskvars, eofvars>>

transcode_rest == <<wsvars, framevars, hextilevars, zrlevars, bitsvars, apivars, ipcvars, packetvars, linkvars, encvars, lockvars, taskvars, eofvars>>

bits_rest == <<rfbvars, wsvars, framevars, hextilevars, zrlevars, transcodevars, apivars, ipcvars, packetvars, linkvars, encvars, lockvars, taskvars, eofvars>>

api_rest == <<rfbvars, wsvars, framevars, hextilevars, zrlevars, transcodevars, bitsvars, ipcvars, packetvars, linkvars, encvars, lockvars, taskvars, eofvars>>

ipc_rest == <<rfbvars, wsvars, framevars, hextilevars, zrlevars, transcodevars, bitsvars, apivars, packetvars, linkvars, encvars, lockvars, taskvars, eofvars>>

packet_rest == <<rfbvars, wsvars, framevars, hextilevars, zrlevars, transcodevars, bitsvars, apivars, ipcvars, linkvars, encvars, lockvars, taskvars, eofvars>>

link_rest == <<rfbvars, wsvars, framevars, hextilevars, zrlevars, transcodevars, bitsvars, apivars, ipcvars, packetvars, encvars, lockvars, taskvars, eofvars>>

encoders_rest == <<rfbvars, wsvars, framevars, hextilevars, zrlevars, transcodevars, bitsvars, apivars, ipcvars, packetvars, linkvars, lockvars, taskvars, eofvars>>

locks_rest == <<rfbvars, wsvars, framevars, hextilevars, zrlevars, transcodevars, bitsvars, apivars, ipcvars, packetvars, linkvars, encvars, taskvars, eofvars>>

tasks_rest == <<rfbvars, wsvars, framevars, hextilevars, zrlevars, transcodevars, bitsvars, apivars, ipcvars, packetvars, linkvars, encvars, lockvars, eofvars>>

eof_rest == <<rfbvars, wsvars, framevars, hextilevars, zrlevars, transcodevars, bitsvars, apivars, ipcvars, packetvars, linkvars, encvars, lockvars, taskvars>>

vars == <<rfbvars, wsvars, framevars, hextilevars, othervars>>

\* The state of each part before it is started.
BridgeIdle ==
    /\ ws_pc = "NotStarted"
    /\ client_rx = <<>>
    /\ in_flight = <<>>
    /\ ws_sent = <<>>
    /\ pending_writes = <<>>
    /\ fin_payload = <<>>
    /\ fin_payload_opcode = 0
    /\ ws_handled = <<>>
    /\ remote_written = <<>>
    /\ remote_rx = <<>>
    /\ client_written = <<>>
    /\ remote_shutdown = FALSE
    /\ client_closed = FALSE

FramerIdle ==
    /\ frame_payload = <<>>
    /\ frame_opcode = 0
    /\ websocket_frame = <<>>
    /\ decoded = <<>>

HextileIdle ==
    /\ hextile_framebuffer = [width |-> 0, height |-> 0, bits_per_pixel |-> 8, raw_pixels |-> <<>>]
    /\ hextile_ctr = -1
    /\ solid_previous_tile = <<>>
    /\ previous_scan_line = <<>>
    /\ solid_tile = TRUE
    /\ hextiles = <<>>
    /\ hextile_pixels = <<>>
    /\ overflow_checks = FALSE

ZrleIdle ==
    /\ zrle_framebuffer = [width |-> 0, height |-> 0, bits_per_pixel |-> 32, raw_pixels |-> <<>>, encoded_pixels |-> <<>>]
    /\ zrletile_ctr = -1
    /\ zrletile_pixels = <<>>
    /\ zrle_tiles = <<>>

TranscodeIdle ==
    /\ tc_pixelformat = <<>>
    /\ tc_capture = <<>>
    /\ tc_pixel_data = <<>>
    /\ tc_pc = "Idle"

BitsIdle ==
    /\ gb_width = 8
    /\ gb_integer = <<>>
    /\ gb_bits = <<>>
    /\ gb_is_le = FALSE
    /\ gb_from_bits = <<>>

ApiIdle ==
    /\ paired_servers = {}
    /\ api_windows = FALSE
    /\ api_service = "none"
    /\ api_request = <<>>
    /\ api_response = <<>>
    /\ api_action = "none"

IpcIdle ==
    /\ WTS_SESSIONS = [pid \in {} |-> <<>>]
    /\ spawned = {}
    /\ ipc_pc = <<>>
    /\ ipc_owner = <<>>
    /\ ipc_unread = <<>>
    /\ client_pid = <<>>
    /\ PENDING_WRITES = <<>>
    /\ ipc_handled = <<>>
    /\ ipc_fired = <<>>

PacketIdle ==
    /\ cp_opcode = 0
    /\ cp_payload = <<>>
    /\ cp_written = <<>>
    /\ cp_frames = <<>>

LinkIdle ==
    /\ link_pc = <<>>
    /\ link_header = <<>>
    /\ link_pending = <<>>
    /\ link_snapshot = <<>>
    /\ link_wire = <<>>
    /\ link_rx = <<>>
    /\ link_closed = <<>>
    /\ link_sent = <<>>
    /\ link_taken = <<>>
    /\ link_read = <<>>
    /\ link_pushed = <<>>
    /\ link_written = <<>>
    /\ eof_observed = FALSE
    /\ create_pc = "Bound"
    /\ websocket_pc = "None"
    /\ pings = 0

EncodersIdle ==
    /\ enc_framebuffer = <<>>
    /\ enc_stream = <<>>
    /\ enc_encoder = ""
    /\ enc_rectangle = <<>>

LocksIdle ==
    /\ lock_pc = <<>>
    /\ lock_held = <<>>

TasksIdle ==
    /\ rfb_listener = ""
    /\ ws_listener = ""
    /\ viewer_task = <<>>
    /\ ws_accepted = 0
    /\ deflates = <<>>
    /\ zstreams_poisoned = FALSE
    /\ worker_process = ""

EofIdle ==
    /\ rfb_eof = FALSE
    /\ eof_at = -1

OthersIdle == ZrleIdle /\ TranscodeIdle /\ BitsIdle /\ ApiIdle /\ IpcIdle /\ PacketIdle /\ LinkIdle /\ EncodersIdle /\ LocksIdle /\ TasksIdle /\ EofIdle

\* ------------------------------------------------------------ pixel format
\* Depth of the X11 root window of the modelled display (true colour).
root_depth == 24

\* x11::get_pixelformat / win32::get_pixelformat: the server's native format.
get_pixelformat ==
    IF wm = "X11"
    THEN [bits_per_pixel |-> IF root_depth = 24 THEN 32 ELSE root_depth,
          depth |-> root_depth, big_endian_flag |-> 1,
          true_color_flag |-> IF root_depth = 24 THEN 1 ELSE 0,
          red_max |-> IF root_depth = 24 THEN 255 ELSE 0,
          green_max |-> IF root_depth = 24 THEN 255 ELSE 0,
          blue_max |-> IF root_depth = 24 THEN 255 ELSE 0,
          red_shift |-> 0, green_shift |-> 0, blue_shift |-> 0,
          padding |-> <<0, 0, 0>>]
    ELSE [bits_per_pixel |-> 32, depth |-> 24, big_endian_flag |-> 1,
          true_color_flag |-> 1, red_max |-> 255, green_max |-> 255,
          blue_max |-> 255, red_shift |-> 16, green_shift |-> 8,
          blue_shift |-> 0, padding |-> <<0, 0, 0>>]

\* The PixelFormat the SetPixelFormat arm builds from the 16 bytes after the
\* padding (pfu = buffer[3..]); the format's own padding is written as zeros.
ParsePixelFormat(pfu) ==
    [bits_per_pixel |-> pfu[1], depth |-> pfu[2], big_endian_flag |-> pfu[3],
     true_color_flag |-> pfu[4],
     red_max |-> BeU16(pfu[5], pfu[6]), green_max |-> BeU16(pfu[7], pfu[8]),
     blue_max |-> BeU16(pfu[9], pfu[10]),
     red_shift |-> pfu[11], green_shift |-> pfu[12], blue_shift |-> pfu[13],
     padding |-> <<0, 0, 0>>]

\* The 16 wire bytes of a PixelFormat, as write_serverinit_message writes them
\* (and as a client writes them in SetPixelFormat).
PixelFormatBytes(pf) ==
    <<pf.bits_per_pixel, pf.depth, pf.big_endian_flag, pf.true_color_flag>>
    \o U16(pf.red_max) \o U16(pf.green_max) \o U16(pf.blue_max)
    \o <<pf.red_shift, pf.green_shift, pf.blue_shift>> \o pf.padding

\* ------------------------------------------------------------------ errors
\* create_rfb_error: reason_length is the reason's length.  Reasons are kept
\* as strings; their lengths are those of the literals in the source.
\* "Version not Supported", "Authentication Type not Supported",
\* "Password is Incorrect"
ReasonLength(reason_string) ==
    CASE reason_string = "Version not Supported" -> 21
      [] reason_string = "Authentication Type not Supported" -> 33
      [] reason_string = "Password is Incorrect" -> 21

create_rfb_error(reason_string) ==
    [reason_length |-> ReasonLength(reason_string), reason_string |-> reason_string]

\* The two writes every error path makes: write_u32(reason_length), then the
\* reason's bytes.
WriteRfbError(reason_string) ==
    LET rfb_error == create_rfb_error(reason_string)
    IN  <<[t |-> "ReasonLength", v |-> rfb_error.reason_length],
          [t |-> "Reason", v |-> rfb_error.reason_string]>>

\* ------------------------------------------------------- VNC authentication
\* u8::from_bits(b.get_bits_le(), false): bit i of the result is bit 7-i of b.
BitReverse8(b) ==
    LET bit(i) == (b \div (2 ^ i)) % 2
    IN  bit(0) * 128 + bit(1) * 64 + bit(2) * 32 + bit(3) * 16
        + bit(4) * 8 + bit(5) * 4 + bit(6) * 2 + bit(7)

vnckey_le(vnc_key) == [index \in 1..Len(vnc_key) |-> BitReverse8(vnc_key[index])]

\* An 8-byte DES block is a number below BlockSpace; DES under one key is a
\* bijection of the blocks, here a key-dependent rotation.
BlockSpace == 2

Blocks == 0..(BlockSpace - 1)

RECURSIVE SumSeq(_)
SumSeq(s) == IF s = <<>> THEN 0 ELSE s[1] + SumSeq(Tail(s))

DesEncryptBlock(key, block) == (block + SumSeq(key)) % BlockSpace

DesDecryptBlock(key, block) == (block + BlockSpace - (SumSeq(key) % BlockSpace)) % BlockSpace

\* des.decrypt_blocks on the two halves of the response (ECB).
decrypt_blocks(key, blocks) == [i \in 1..Len(blocks) |-> DesDecryptBlock(key, blocks[i])]

\* parser::security::vnc_auth_challenge(): a random 16-byte challenge (two
\* blocks); the challenges the modelled runs draw.
Challenges == {<<0, 1>>}

\* The keys a server may be started with (--vnc-auth=KEY, first 8 bytes).
\* "password"
VncKeys == {<<112, 97, 115, 115, 119, 111, 114, 100>>}

\* What a client may answer to a challenge: two blocks encrypted under the
\* server's key, of which <<0, 1>> is the right answer and the others are not.
Responses(key) ==
    {<<DesEncryptBlock(key, b[1]), DesEncryptBlock(key, b[2])>> : b \in {0, 1} \X {0, 1}}

\* ---------------------------------------------------- capture and transcode
RECURSIVE Flatten(_)
Flatten(ss) == IF ss = <<>> THEN <<>> ELSE ss[1] \o Flatten(Tail(ss))

\* chunks(n): successive pieces of n items, the last one possibly shorter.
Chunks(s, n) ==
    [k \in 1..((Len(s) + n - 1) \div n) |->
        SubSeq(s, (k - 1) * n + 1, IF k * n < Len(s) THEN k * n ELSE Len(s))]

\* chunks_exact(n): only the full pieces.
ChunksExact(s, n) == [k \in 1..(Len(s) \div n) |-> SubSeq(s, (k - 1) * n + 1, k * n)]

\* The display's content, native 32-bpp BGRA: the pixel at column col, row row.
ScreenPixel(col, row) == <<(10 + col) % 256, (20 + row) % 256, 30, 0>>

\* The capture of a rectangle (get_image / GetDIBits): 4*w*h bytes, row-major.
Capture(x_position, y_position, width, height) ==
    Flatten([p \in 1..(width * height) |->
        ScreenPixel(x_position + ((p - 1) % width), y_position + ((p - 1) \div width))])

\* X11 answers GetImage of the root window with a Match error unless the
\* rectangle lies within the window; rectangle_framebuffer_update unwraps the
\* reply.  GetDIBits fills the buffer whatever the rectangle.
CaptureFails(x_position, y_position, width, height) ==
    /\ wm = "X11"
    /\ \/ x_position + width > ScreenWidth
       \/ y_position + height > ScreenHeight

\* The transcoding loop indexes a 4-byte pixel with shift/8.
TranscodePanics(pixel_data, pixelformat) ==
    /\ Len(pixel_data) > 0
    /\ \/ pixelformat.red_shift \div 8 > 3
       \/ pixelformat.green_shift \div 8 > 3
       \/ pixelformat.blue_shift \div 8 > 3

\* One pixel of the loop: red, green, blue written in this order at shift/8,
\* from a copy of the captured pixel (X11 also sets byte 3 to 255).
TranscodePixel(pixel, pixelformat) ==
    LET red == pixelformat.red_shift \div 8
        green == pixelformat.green_shift \div 8
        blue == pixelformat.blue_shift \div 8
        p1 == [pixel EXCEPT ![red + 1] = pixel[3]]
        p2 == [p1 EXCEPT ![green + 1] = pixel[2]]
        p3 == [p2 EXCEPT ![blue + 1] = pixel[1]]
    IN  IF wm = "X11" THEN [p3 EXCEPT ![4] = 255] ELSE p3

Transcode(pixel_data, pixelformat) ==
    LET pixel_chunks == Chunks(pixel_data, 4)
    IN  Flatten([k \in 1..Len(pixel_chunks) |-> TranscodePixel(pixel_chunks[k], pixelformat)])

\* ------------------------------------------------------------------- ZRLE
ZRLE_TILE_WIDTH == 64
ZRLE_TILE_HEIGHT == 64

CeilDiv(a, b) == (a + b - 1) \div b

Min(a, b) == IF a < b THEN a ELSE b

\* solid_zrletile_color looking at the two ends of the tile only.
solid_zrletile_color_ends(tile, bytes_per_pixel) ==
    LET tile_chunks == Chunks(tile, bytes_per_pixel)
        solid_color == tile_chunks[Len(tile_chunks)] = tile_chunks[1]
    IN  IF solid_color THEN <<TRUE, tile_chunks[1]>> ELSE <<FALSE, <<>>>>

\* solid_zrletile_color: every chunk of the tile equals the first one.
solid_zrletile_color(tile, bytes_per_pixel) ==
    LET tile_chunks == Chunks(tile, bytes_per_pixel)
        solid_color == \A k \in 1..Len(tile_chunks) : tile_chunks[k] = tile_chunks[1]
    IN  IF solid_color THEN <<TRUE, tile_chunks[1]>> ELSE <<FALSE, <<>>>>

\* The pixels of tile zrletile_ctr, cut from the scan lines.
zrle_tile_pixels(hscan_lines, ctr, h_tiles, bytes_per_cpixel) ==
    LET vertical_progress == ctr \div h_tiles
        horizontal_progress == ctr % h_tiles
        start == vertical_progress * ZRLE_TILE_HEIGHT
        end == Min(start + ZRLE_TILE_HEIGHT, Len(hscan_lines))
        h_start == horizontal_progress * bytes_per_cpixel * ZRLE_TILE_WIDTH
        h_end(line) == Min(h_start + ZRLE_TILE_HEIGHT * bytes_per_cpixel, Len(line))
    IN  Flatten([k \in 1..(end - start) |->
            SubSeq(hscan_lines[start + k], h_start + 1, h_end(hscan_lines[start + k]))])

\* encode: the locals computed before the loop.  width * bytes_per_cpixel
\* is a product of two u16, which wraps where the build lets it.
bytes_per_cpixel(framebuffer) == IF framebuffer.bits_per_pixel >= 24 THEN 3 ELSE framebuffer.bits_per_pixel \div 8

zrle_h_tiles(framebuffer) == CeilDiv(framebuffer.width, ZRLE_TILE_WIDTH)

zrle_v_tiles(framebuffer) == CeilDiv(framebuffer.height, ZRLE_TILE_HEIGHT)

zrle_scan_line_length(framebuffer) == (framebuffer.width * bytes_per_cpixel(framebuffer)) % (2 ^ 16)

zrle_hscan_lines(framebuffer) == ChunksExact(framebuffer.encoded_pixels, zrle_scan_line_length(framebuffer))

\* One turn of the loop: the bytes pushed for tile ctr.
zrle_tile(framebuffer, ctr) ==
    LET cut == zrle_tile_pixels(zrle_hscan_lines(framebuffer), ctr, zrle_h_tiles(framebuffer), bytes_per_cpixel(framebuffer))
        solid_zrletile == solid_zrletile_color(cut, bytes_per_cpixel(framebuffer))
    IN  IF solid_zrletile[1] THEN <<1>> \o solid_zrletile[2] ELSE <<0>> \o cut

\* encoding_zrle::encode: the tile stream of a framebuffer of width, height > 0.
zrle_encode(framebuffer) ==
    Flatten([k \in 1..(zrle_v_tiles(framebuffer) * zrle_h_tiles(framebuffer)) |-> zrle_tile(framebuffer, k - 1)])

\* ------------------------------------------------------------------- zlib
\* The z_stream create_stream inserts: no deflate state, zero counters.
\* hdr: the zlib header of the current deflate state is still to be written;
\* flushed: the last deflate call on the state was a sync flush;
\* inits: how many times deflateInit2_ has set the stream up.
NewZStream == [state |-> "null", total_in |-> 0, total_out |-> 0,
               hdr |-> FALSE, flushed |-> FALSE, inits |-> 0]

create_stream(registry, stream_id) ==
    [id \in DOMAIN registry \cup {stream_id} |->
        IF id = stream_id THEN NewZStream ELSE registry[id]]

flush_stream(registry, stream_id) ==
    [id \in DOMAIN registry \ {stream_id} |-> registry[id]]

\* libz deflateInit2_: on Z_OK a fresh deflate state with zero counters
\* replaces whatever the stream held; on failure the stream is left as it was.
deflateInit2_(zlib_stream, deflate_init_status) ==
    IF deflate_init_status = Z_OK
    THEN [state |-> "init", total_in |-> 0, total_out |-> 0, hdr |-> TRUE,
          flushed |-> FALSE, inits |-> zlib_stream.inits + 1]
    ELSE zlib_stream

\* libz deflate(strm, Z_SYNC_FLUSH) status: with no input and nothing new to
\* flush after a previous sync flush no progress is possible.
zlib_deflate_status(zlib_stream, next_in) ==
    IF Len(next_in) = 0 /\ zlib_stream.flushed THEN Z_BUF_ERROR ELSE Z_OK

\* What a successful deflate call writes: the stream header if the state is
\* new, then one sync-flushed block holding the input.
zlib_deflate_output(zlib_stream, next_in) ==
    (IF zlib_stream.hdr THEN <<[z |-> "header", data |-> <<>>]>> ELSE <<>>)
    \o <<[z |-> "block", data |-> next_in]>>

zlib_deflate(zlib_stream, next_in) ==
    IF zlib_deflate_status(zlib_stream, next_in) = Z_OK
    THEN [zlib_stream EXCEPT
            !.total_in = @ + Len(next_in),
            !.total_out = @ + Len(zlib_deflate_output(zlib_stream, next_in)),
            !.hdr = FALSE, !.flushed = TRUE]
    ELSE zlib_stream

\* encoding_zlib::deflate.  Returns the rectangle and the stream as the call
\* leaves it in the registry.
deflate(framebuffer, zlib_stream, deflate_init_status) ==
    LET zlib_data == framebuffer.encoded_pixels
        raw_rectangle ==
            [x_position |-> framebuffer.x_position, y_position |-> framebuffer.y_position,
             width |-> framebuffer.width, height |-> framebuffer.height,
             encoding_type |-> RAW, encoded_pixels |-> framebuffer.raw_pixels,
             encoded_pixels_length |-> 0]
        init_needed == zlib_stream.total_in = 0
        inited == IF init_needed THEN deflateInit2_(zlib_stream, deflate_init_status)
                  ELSE zlib_stream
        previous_total_out == inited.total_out
        deflate_status == zlib_deflate_status(inited, zlib_data)
        after == zlib_deflate(inited, zlib_data)
        compressed_bytes == after.total_out - previous_total_out
    IN  IF init_needed /\ deflate_init_status # Z_OK
        THEN [rect |-> raw_rectangle, stream |-> inited]
        ELSE IF deflate_status # Z_OK
        THEN [rect |-> raw_rectangle, stream |-> after]
        ELSE [rect |-> [raw_rectangle EXCEPT
                          !.encoded_pixels_length = compressed_bytes,
                          !.encoding_type = framebuffer.encoding,
                          !.encoded_pixels =
                              Take(zlib_deflate_output(inited, zlib_data), compressed_bytes)],
              stream |-> after]

\* get_pixel_data's loop over raw_pixels.chunks(4): the first three bytes of
\* every chunk.
c_pixels(raw_pixels) ==
    SubSeq([j \in 1..(3 * CeilDiv(Len(raw_pixels), 4)) |-> raw_pixels[4 * ((j - 1) \div 3) + ((j - 1) % 3) + 1]], 1, 3 * CeilDiv(Len(raw_pixels), 4))

\* encoding_zrle::get_pixel_data
zrle_get_pixel_data(framebuffer, zlib_stream, deflate_init_status) ==
    LET encoded_tiles ==
            IF framebuffer.width > 0 /\ framebuffer.height > 0
            THEN zrle_encode([framebuffer EXCEPT !.encoded_pixels = c_pixels(framebuffer.raw_pixels)])
            ELSE framebuffer.raw_pixels
    IN  deflate([framebuffer EXCEPT !.encoded_pixels = encoded_tiles],
                zlib_stream, deflate_init_status)

\* ------------------------------------------------------ framebuffer update
\* x11::/win32::rectangle_framebuffer_update with encoding_type ZRLE, the only
\* encoding process_clientserver_message asks for.
rectangle_framebuffer_update(x_position, y_position, width, height, pixelformat, zlib_stream, deflate_init_status) ==
    LET pixel_data == Transcode(Capture(x_position, y_position, width, height), pixelformat)
        framebuffer_struct ==
            [x_position |-> x_position, y_position |-> y_position,
             width |-> width, height |-> height,
             bits_per_pixel |-> IF wm = "X11" /\ root_depth # 24 THEN root_depth ELSE 32,
             raw_pixels |-> pixel_data, encoding |-> ZRLE, encoded_pixels |-> <<>>]
        got == zrle_get_pixel_data(framebuffer_struct, zlib_stream, deflate_init_status)
    IN  [update |-> [message_type |-> FRAME_BUFFER_UPDATE, padding |-> 0,
                     number_of_rectangles |-> 1, frame_buffer |-> <<got.rect>>],
         stream |-> got.stream]

\* A writer that prefixes the length for ZLIB only.
write_rectangle_zlib_prefix_only(framebuffer) ==
    U16(framebuffer.x_position) \o U16(framebuffer.y_position)
    \o U16(framebuffer.width) \o U16(framebuffer.height)
    \o U32(framebuffer.encoding_type)
    \o (IF framebuffer.encoding_type = ZLIB
        THEN U32(framebuffer.encoded_pixels_length) \o framebuffer.encoded_pixels
        ELSE framebuffer.encoded_pixels)

\* write_framebuffer_update_message: the bytes (and deflate output items) of
\* one FramebufferUpdate on the wire.
write_rectangle(framebuffer) ==
    U16(framebuffer.x_position) \o U16(framebuffer.y_position)
    \o U16(framebuffer.width) \o U16(framebuffer.height)
    \o U32(framebuffer.encoding_type)
    \o (IF framebuffer.encoding_type = ZRLE \/ framebuffer.encoding_type = ZLIB
        THEN U32(framebuffer.encoded_pixels_length) \o framebuffer.encoded_pixels
        ELSE framebuffer.encoded_pixels)

write_framebuffer_update_message(frame_buffer) ==
    <<frame_buffer.message_type, frame_buffer.padding>>
    \o U16(frame_buffer.number_of_rectangles)
    \o Flatten([k \in 1..Len(frame_buffer.frame_buffer) |->
                    write_rectangle(frame_buffer.frame_buffer[k])])

\* --------------------------------------------------------- client messages
\* The formats a client asks for: a little-endian-style RGB layout, and one
\* whose red shift lies outside a 32-bit pixel.
ClientFormat ==
    [bits_per_pixel |-> 32, depth |-> 24, big_endian_flag |-> 0, true_color_flag |-> 1,
     red_max |-> 255, green_max |-> 255, blue_max |-> 255,
     red_shift |-> 0, green_shift |-> 8, blue_shift |-> 16, padding |-> <<0, 0, 0>>]

ClientFormats ==
    {ClientFormat,
     [bits_per_pixel |-> 32, depth |-> 24, big_endian_flag |-> 0, true_color_flag |-> 1,
      red_max |-> 255, green_max |-> 255, blue_max |-> 255,
      red_shift |-> 32, green_shift |-> 8, blue_shift |-> 0, padding |-> <<0, 0, 0>>]}

ClientPaddings == {<<0, 0, 0>>, <<0, 0, 1>>}

\* The rectangles a client asks for: one pixel, an empty one, and one that
\* reaches past the right edge of the screen.
ClientRects ==
    {[x |-> 0, y |-> 0, w |-> 1, h |-> 1], [x |-> 1, y |-> 0, w |-> 0, h |-> 0],
     [x |-> 1, y |-> 0, w |-> ScreenWidth, h |-> 1]}

SetPixelFormatMsg(pad, pf) == <<SET_PIXEL_FORMAT>> \o pad \o PixelFormatBytes(pf)

SetEncodingsMsg(encodings) ==
    <<SET_ENCODINGS, 0>> \o U16(Len(encodings))
    \o Flatten([k \in 1..Len(encodings) |-> U32(encodings[k])])

FramebufferUpdateRequestMsg(incremental, r) ==
    <<FRAME_BUFFER_UPDATE_REQUEST, incremental>> \o U16(r.x) \o U16(r.y) \o U16(r.w) \o U16(r.h)

KeyEventMsg(down, keysym) == <<KEY_EVENT, down, 0, 0>> \o U32(keysym)

PointerEventMsg(mask, x, y) == <<POINTER_EVENT, mask>> \o U16(x) \o U16(y)

ClientCutTextMsg(text) == <<CLIENT_CUT_TEXT, 0, 0, 0>> \o U32(Len(text)) \o text

\* A FramebufferUpdateRequest the viewer stops sending after two bytes.
TruncatedRequestMsg == <<FRAME_BUFFER_UPDATE_REQUEST, 0>>

\* The RFB 3.8 messages the modelled clients send while Serving, and the
\* beginning of one.
ClientMessages ==
    {SetPixelFormatMsg(<<0, 0, 0>>, pf) : pf \in ClientFormats}
    \cup {SetPixelFormatMsg(pad, ClientFormat) : pad \in ClientPaddings}
    \cup {SetEncodingsMsg(<<>>), SetEncodingsMsg([k \in 1..MaxEncodings |-> ZRLE])}
    \cup {FramebufferUpdateRequestMsg(0, r) : r \in ClientRects}
    \cup {KeyEventMsg(1, 97)}
    \cup {ClientCutTextMsg([k \in 1..MaxCutText |-> FRAME_BUFFER_UPDATE_REQUEST])}
    \cup {TruncatedRequestMsg}

\* ------------------------------------------------------------ Serving loop
\* The number of payload bytes the Serving loop reads after an opcode.
PayloadLength(opcode) ==
    CASE opcode = SET_PIXEL_FORMAT -> 19
      [] opcode = SET_ENCODINGS -> 3
      [] opcode = FRAME_BUFFER_UPDATE_REQUEST -> 9
      [] opcode = POINTER_EVENT -> 5
      [] opcode = KEY_EVENT -> 7
      [] OTHER -> 0

\* The server's next read_exact can complete.
OpcodeReady(c) == Len(rx[c]) >= 1

PayloadReady(c) == OpcodeReady(c) /\ Len(rx[c]) >= 1 + PayloadLength(rx[c][1])

\* --------------------------------------------------------------- handshake
\* RFBServer::init and the override of init_authentication_handshake.
\* An advertisement of VNC authentication whatever the configuration.
security_types_vnc_only == <<2>>

supported_security_types == IF auth # <<>> THEN <<2>> ELSE <<1>>

supported_security_types_length == 1

\* "RFB 003.003\n": a client that does not echo the server's version.
OtherVersion == <<82, 70, 66, 32, 48, 48, 51, 46, 48, 48, 51, 10>>

VersionReplies == {protocol_version, OtherVersion}

SecurityTypeChoices == 1..3

ClientInitBytes == {0, 1}

\* The display name (X11 vendor string / Windows host name): "spify".
name_string == <<115, 112, 105, 102, 121>>

\* x11::/win32::get_display_struct
get_display_struct ==
    [framebuffer_width |-> ScreenWidth, framebuffer_height |-> ScreenHeight,
     server_pixelformat |-> get_pixelformat,
     name_length |-> Len(name_string), name_string |-> name_string]

\* write_serverinit_message: the bytes of ServerInit.
write_serverinit_message(server_init) ==
    U16(server_init.framebuffer_width) \o U16(server_init.framebuffer_height)
    \o PixelFormatBytes(server_init.server_pixelformat)
    \o U32(server_init.name_length) \o server_init.name_string

Item(t, v) == [t |-> t, v |-> v]

Write(c, items) == tx' = [tx EXCEPT ![c] = @ \o items]

Read(c, item) == hs' = [hs EXCEPT ![c] = Append(@, item)]

\* A test of the protocol name alone, "RFB ".
version_agreed_prefix(buf) == Take(buf, 4) = Take(protocol_version, 4)

\* A test of the first DES block alone.
challenge_verified_first_block(ch, decrypted_challenge) == ch[1] = decrypted_challenge[1]

\* init_handshake's test of the 12 bytes read.
version_agreed(buf) == buf = protocol_version

\* init_securityresult_handshake's test of the decrypted response.
challenge_verified(ch, decrypted_challenge) == ch = decrypted_challenge

Goto(c, where) == pc' = [pc EXCEPT ![c] = where]

\* The server before any connection, and with no part of it running.
ServerNew ==
    /\ pc = [c \in Conns |-> "NotConnected"]
    /\ rx = [c \in Conns |-> <<>>]
    /\ consumed = [c \in Conns |-> 0]
    /\ starts = [c \in Conns |-> {}]
    /\ sent = 0
    /\ tx = [c \in Conns |-> <<>>]
    /\ challenge = [c \in Conns |-> <<>>]
    /\ hs = [c \in Conns |-> <<>>]
    /\ pixel_format = [c \in Conns |-> get_pixelformat]
    /\ zstream_id = [c \in Conns |-> 0]
    /\ LIVE_ZSTREAMS = <<>>
    /\ handled = [c \in Conns |-> <<>>]

ServerIdle == auth = <<>> /\ wm = "X11" /\ ServerNew

Init ==
    /\ auth \in {<<>>} \cup {<<key>> : key \in VncKeys}
    /\ wm \in {"X11", "WIN32"}
    /\ ServerNew
    /\ BridgeIdle
    /\ FramerIdle
    /\ HextileIdle
    /\ OthersIdle

\* create: the accept loop takes the connections one after the other and
\* spawns a task for each; init_handshake writes the version.
accept(c) ==
    /\ pc[c] = "NotConnected"
    /\ \A d \in Conns : d < c => pc[d] # "NotConnected"
    /\ Write(c, <<Item("ProtocolVersion", protocol_version)>>)
    /\ Goto(c, "AwaitVersion")
    /\ UNCHANGED <<wsvars, framevars, hextilevars, othervars, auth, wm, rx, consumed, starts, sent, challenge, hs,
                   pixel_format, zstream_id, LIVE_ZSTREAMS, handled>>

\* init_handshake: the 12 bytes read; on agreement init_authentication_handshake
\* advertises the security types.
init_handshake(c) ==
    /\ pc[c] = "AwaitVersion"
    /\ \E buf \in VersionReplies :
        /\ Read(c, Item("Version", buf))
        /\ IF version_agreed(buf)
           THEN /\ Write(c, <<Item("SecurityTypes",
                                   [length |-> supported_security_types_length,
                                    types |-> supported_security_types])>>)
                /\ Goto(c, "AwaitSecurityType")
           ELSE /\ Write(c, WriteRfbError("Version not Supported"))
                /\ Goto(c, "Closed")
    /\ UNCHANGED <<wsvars, framevars, hextilevars, othervars, auth, wm, rx, consumed, starts, sent, challenge,
                   pixel_format, zstream_id, LIVE_ZSTREAMS, handled>>

\* init_authentication_handshake reads the selected type;
\* init_securityresult_handshake acts on it up to its next read.
init_authentication_handshake(c) ==
    /\ pc[c] = "AwaitSecurityType"
    /\ \E security_type \in SecurityTypeChoices :
        /\ Read(c, Item("SecurityType", security_type))
        /\ CASE security_type = 1 ->
                /\ Write(c, <<Item("SecurityResult", 0)>>)
                /\ Goto(c, "AwaitClientInit")
                /\ UNCHANGED challenge
          [] security_type = 2 /\ auth = <<>> ->
                \* auth.unwrap() on None
                /\ Goto(c, "Panicked")
                /\ UNCHANGED <<tx, challenge>>
          [] security_type = 2 /\ auth # <<>> ->
                \E ch \in Challenges :
                    /\ challenge' = [challenge EXCEPT ![c] = ch]
                    /\ Write(c, <<Item("Challenge", ch)>>)
                    /\ Goto(c, "AwaitResponse")
          [] OTHER ->
                /\ Write(c, WriteRfbError("Authentication Type not Supported"))
                /\ Goto(c, "Closed")
                /\ UNCHANGED challenge
    /\ UNCHANGED <<wsvars, framevars, hextilevars, othervars, auth, wm, rx, consumed, starts, sent,
                   pixel_format, zstream_id, LIVE_ZSTREAMS, handled>>

\* init_securityresult_handshake, type 2, from the read of the response.
init_securityresult_handshake(c) ==
    /\ pc[c] = "AwaitResponse"
    /\ \E challenge_buf \in Responses(vnckey_le(auth[1])) :
        LET decrypted_challenge == decrypt_blocks(vnckey_le(auth[1]), challenge_buf)
        IN  /\ Read(c, Item("Response", challenge_buf))
            /\ IF challenge_verified(challenge[c], decrypted_challenge)
               THEN /\ Write(c, <<Item("SecurityResult", 0)>>)
                    /\ Goto(c, "AwaitClientInit")
               ELSE /\ Write(c, <<Item("SecurityResult", 1)>>
                                 \o WriteRfbError("Password is Incorrect"))
                    /\ Goto(c, "Closed")
    /\ UNCHANGED <<wsvars, framevars, hextilevars, othervars, auth, wm, rx, consumed, starts, sent, challenge,
                   pixel_format, zstream_id, LIVE_ZSTREAMS, handled>>

\* init_clientinit_handshake: the shared flag; for 1.. init_serverinit_handshake
\* and write_serverinit_message follow, then init_clientserver_handshake
\* creates the session's stream and takes the native pixel format.
init_clientinit_handshake(c) ==
    /\ pc[c] = "AwaitClientInit"
    /\ \E shared_flag \in ClientInitBytes :
        /\ Read(c, Item("ClientInit", shared_flag))
        /\ IF shared_flag = 0
           THEN /\ Goto(c, "Closed")
                /\ UNCHANGED <<tx, zstream_id, LIVE_ZSTREAMS, pixel_format>>
           ELSE /\ Write(c, <<Item("ServerInit", get_display_struct)>>)
                /\ zstream_id' = [zstream_id EXCEPT ![c] = c]
                /\ LIVE_ZSTREAMS' = create_stream(LIVE_ZSTREAMS, c)
                /\ pixel_format' = [pixel_format EXCEPT ![c] = get_pixelformat]
                /\ Goto(c, "Serving")
    /\ UNCHANGED <<wsvars, framevars, hextilevars, othervars, auth, wm, rx, consumed, starts, sent, challenge, handled>>

\* The viewer closes the connection while a handshake read is pending, and the
\* read meets end-of-stream: init_handshake and init_authentication_handshake
\* shut the socket down, the response read unwraps the error, and
\* read_u8().unwrap_or(0) takes the arm of 0.
handshake_eof(c) ==
    /\ pc[c] \in {"AwaitVersion", "AwaitSecurityType", "AwaitResponse", "AwaitClientInit"}
    /\ Goto(c, IF pc[c] = "AwaitResponse" THEN "Panicked" ELSE "Closed")
    /\ UNCHANGED <<wsvars, framevars, hextilevars, othervars, auth, wm, rx, consumed, starts, sent, tx, challenge, hs,
                   pixel_format, zstream_id, LIVE_ZSTREAMS, handled>>

\* ------------------------------------------------------- Serving, the arms
\* What one pass of the loop takes off the stream: the opcode and its buffer.
opcode(c) == rx[c][1]

buffer(c) == SubSeq(rx[c], 2, 1 + PayloadLength(opcode(c)))

\* The pass consumes the opcode and the buffer and records the dispatch.
Consume(c) ==
    /\ rx' = [rx EXCEPT ![c] = Drop(@, 1 + PayloadLength(opcode(c)))]
    /\ consumed' = [consumed EXCEPT ![c] = @ + 1 + PayloadLength(opcode(c))]
    /\ handled' = [handled EXCEPT ![c] = Append(@, [opcode |-> opcode(c), buffer |-> buffer(c),
                                                       offset |-> consumed[c]])]

\* The status deflateInit2_ returns when deflate calls it: the runs take the
\* allocation of the deflate state to succeed.
DeflateInitStatuses(zlib_stream) == {Z_OK}

\* process_clientserver_message for the two arms that answer: capture,
\* encode (ZRLE), write one FramebufferUpdate.  The task panics on a failed
\* capture, and in the transcoding loop when a shift indexes outside the pixel.
SendFramebufferUpdate(c, x_position, y_position, width, height, pixelformat) ==
    IF \/ CaptureFails(x_position, y_position, width, height)
       \/ TranscodePanics(Capture(x_position, y_position, width, height), pixelformat)
    THEN /\ Goto(c, "Panicked")
         /\ UNCHANGED <<tx, LIVE_ZSTREAMS>>
    ELSE \E deflate_init_status \in DeflateInitStatuses(LIVE_ZSTREAMS[zstream_id[c]]) :
            LET got == rectangle_framebuffer_update(x_position, y_position, width, height,
                            pixelformat, LIVE_ZSTREAMS[zstream_id[c]], deflate_init_status)
            IN  /\ Write(c, <<Item("FramebufferUpdate",
                                   [update |-> got.update, pixelformat |-> pixelformat,
                                    cause |-> Len(handled[c]) + 1])>>)
                /\ LIVE_ZSTREAMS' = [LIVE_ZSTREAMS EXCEPT ![zstream_id[c]] = got.stream]
                /\ UNCHANGED pc

\* The pixel format the SET_PIXEL_FORMAT arm leaves in the session.
set_pixel_format(current, buf) ==
    IF buf[1] = 0 /\ buf[2] = 0 /\ buf[3] = 0
    THEN ParsePixelFormat(SubSeq(buf, 4, 19))
    ELSE current

serve_set_pixel_format(c) ==
    /\ pc[c] = "Serving"
    /\ PayloadReady(c)
    /\ opcode(c) = SET_PIXEL_FORMAT
    /\ Consume(c)
    /\ pixel_format' = [pixel_format EXCEPT ![c] = set_pixel_format(@, buffer(c))]
    /\ SendFramebufferUpdate(c, 0, 0, ScreenWidth, ScreenHeight,
                             set_pixel_format(pixel_format[c], buffer(c)))
    /\ UNCHANGED <<wsvars, framevars, hextilevars, othervars, auth, wm, starts, sent, challenge, hs, zstream_id>>

serve_set_encodings(c) ==
    /\ pc[c] = "Serving"
    /\ PayloadReady(c)
    /\ opcode(c) = SET_ENCODINGS
    /\ Consume(c)
    /\ UNCHANGED <<wsvars, framevars, hextilevars, othervars, auth, wm, pc, starts, sent, tx, challenge, hs,
                   pixel_format, zstream_id, LIVE_ZSTREAMS>>

serve_framebuffer_update_request(c) ==
    /\ pc[c] = "Serving"
    /\ PayloadReady(c)
    /\ opcode(c) = FRAME_BUFFER_UPDATE_REQUEST
    /\ Consume(c)
    /\ LET buf == buffer(c)
       IN  SendFramebufferUpdate(c, BeU16(buf[2], buf[3]), BeU16(buf[4], buf[5]),
                                 BeU16(buf[6], buf[7]), BeU16(buf[8], buf[9]),
                                 pixel_format[c])
    /\ UNCHANGED <<wsvars, framevars, hextilevars, othervars, auth, wm, starts, sent, challenge, hs, pixel_format,
                   zstream_id>>

\* POINTER_EVENT and KEY_EVENT hand the event to the display; nothing is
\* written to the client.
serve_input_event(c) ==
    /\ pc[c] = "Serving"
    /\ PayloadReady(c)
    /\ opcode(c) \in {POINTER_EVENT, KEY_EVENT}
    /\ Consume(c)
    /\ UNCHANGED <<wsvars, framevars, hextilevars, othervars, auth, wm, pc, starts, sent, tx, challenge, hs,
                   pixel_format, zstream_id, LIVE_ZSTREAMS>>

\* The arm of every other opcode, CLIENT_CUT_TEXT included: nothing is read
\* beyond the opcode.
serve_other(c) ==
    /\ pc[c] = "Serving"
    /\ PayloadReady(c)
    /\ opcode(c) \notin {SET_PIXEL_FORMAT, SET_ENCODINGS, FRAME_BUFFER_UPDATE_REQUEST,
                         POINTER_EVENT, KEY_EVENT}
    /\ Consume(c)
    /\ UNCHANGED <<wsvars, framevars, hextilevars, othervars, auth, wm, pc, starts, sent, tx, challenge, hs,
                   pixel_format, zstream_id, LIVE_ZSTREAMS>>

\* The viewer closes the connection at a point where all it sent has been
\* read: the opcode read meets end-of-stream, the stream is flushed, the loop
\* ends.
serve_disconnect(c) ==
    /\ pc[c] = "Serving"
    /\ ~OpcodeReady(c)
    /\ LIVE_ZSTREAMS' = flush_stream(LIVE_ZSTREAMS, zstream_id[c])
    /\ Goto(c, "Closed")
    /\ UNCHANGED <<wsvars, framevars, hextilevars, othervars, auth, wm, rx, consumed, starts, sent, tx, challenge, hs,
                   pixel_format, zstream_id, handled>>

\* The viewer closes the connection with a message's payload cut short: the
\* payload read meets end-of-stream and read_exact(..).await.unwrap() panics.
serve_payload_eof(c) ==
    /\ pc[c] = "Serving"
    /\ OpcodeReady(c)
    /\ ~PayloadReady(c)
    /\ rx' = [rx EXCEPT ![c] = <<>>]
    /\ consumed' = [consumed EXCEPT ![c] = @ + Len(rx[c])]
    /\ Goto(c, "Panicked")
    /\ UNCHANGED <<wsvars, framevars, hextilevars, othervars, auth, wm, starts, sent, tx, challenge, hs,
                   pixel_format, zstream_id, LIVE_ZSTREAMS, handled>>

\* ------------------------------------------------------------- the client
\* The last thing the viewer of c sent was the beginning of a request; it
\* sends nothing after it.
StoppedMidMessage(c) ==
    /\ starts[c] # {}
    /\ \E last \in starts[c] :
        /\ \A o \in starts[c] : o <= last
        /\ consumed[c] + Len(rx[c]) - last = Len(TruncatedRequestMsg)

\* A viewer sends one message while the server waits for bytes.
client_send(c) ==
    /\ pc[c] = "Serving"
    /\ ~PayloadReady(c)
    /\ ~StoppedMidMessage(c)
    /\ sent < MaxMsgs
    /\ \E m \in ClientMessages :
        /\ rx' = [rx EXCEPT ![c] = @ \o m]
        /\ starts' = [starts EXCEPT ![c] = @ \cup {consumed[c] + Len(rx[c])}]
    /\ sent' = sent + 1
    /\ UNCHANGED <<wsvars, framevars, hextilevars, othervars, auth, wm, pc, consumed, tx, challenge, hs,
                   pixel_format, zstream_id, LIVE_ZSTREAMS, handled>>

Next ==
    \E c \in Conns :
        \/ accept(c)
        \/ init_handshake(c)
        \/ init_authentication_handshake(c)
        \/ init_securityresult_handshake(c)
        \/ init_clientinit_handshake(c)
        \/ handshake_eof(c)
        \/ serve_set_pixel_format(c)
        \/ serve_set_encodings(c)
        \/ serve_framebuffer_update_request(c)
        \/ serve_input_event(c)
        \/ serve_other(c)
        \/ serve_disconnect(c)
        \/ serve_payload_eof(c)
        \/ client_send(c)

Spec == Init /\ [][Next]_vars

\* --------------------------------------------------------------- websocket
CONTINUATION_FRAME == 0
TEXT_FRAME == 1
BINARY_FRAME == 2
CONNECTION_CLOSE == 8
PING == 9
PONG == 10

\* GetBits for u8. get_bits_be lists the bits from the least significant one,
\* get_bits_le is that list reversed: from the most significant one.
get_bits_be(byte) == [index \in 1..8 |-> (byte \div (2 ^ (index - 1))) % 2 = 1]

get_bits_le(byte) == [index \in 1..8 |-> get_bits_be(byte)[9 - index]]

\* from_bits, for at most eight bits: bits_added is bits padded in front
\* with false to eight, reversed when is_le; the integer has bit index set for
\* every true bits_added[index].
bits_added_at(bits, is_le, index) ==
    LET at == IF is_le THEN 9 - index ELSE index
    IN  at > 8 - Len(bits) /\ bits[at - (8 - Len(bits))]

BitWeight(set, index) == IF set THEN 2 ^ (index - 1) ELSE 0

from_bits(bits, is_le) ==
    \* the sum over index 1..8, written out
    BitWeight(bits_added_at(bits, is_le, 1), 1) + BitWeight(bits_added_at(bits, is_le, 2), 2)
        + BitWeight(bits_added_at(bits, is_le, 3), 3) + BitWeight(bits_added_at(bits, is_le, 4), 4)
        + BitWeight(bits_added_at(bits, is_le, 5), 5) + BitWeight(bits_added_at(bits, is_le, 6), 6)
        + BitWeight(bits_added_at(bits, is_le, 7), 7) + BitWeight(bits_added_at(bits, is_le, 8), 8)

BitAt(byte, index) == (byte \div (2 ^ (index - 1))) % 2

Xor8(a, b) ==
    \* a ^ b, bit by bit
    ((BitAt(a, 1) + BitAt(b, 1)) % 2) + ((BitAt(a, 2) + BitAt(b, 2)) % 2) * 2
        + ((BitAt(a, 3) + BitAt(b, 3)) % 2) * 4 + ((BitAt(a, 4) + BitAt(b, 4)) % 2) * 8
        + ((BitAt(a, 5) + BitAt(b, 5)) % 2) * 16 + ((BitAt(a, 6) + BitAt(b, 6)) % 2) * 32
        + ((BitAt(a, 7) + BitAt(b, 7)) % 2) * 64 + ((BitAt(a, 8) + BitAt(b, 8)) % 2) * 128

unmask_payload(mask_key, payload) == [index \in 1..Len(payload) |-> Xor8(payload[index], mask_key[((index - 1) % 4) + 1])]

\* mask_payload is a stub that returns no bytes.
mask_payload(payload) == <<>>

\* generate_masking_key draws four random bytes; no caller asks for a masked
\* frame, so one value stands for the draw.
generate_masking_key == <<0, 0, 0, 0>>

U64(x) == <<0, 0, 0, 0>> \o U32(x)

\* create_frame with the first length test off by one: a payload of 126
\* bytes still gets the inline form.
create_frame_inline_126(payload, ws_opcode, secure) ==
    LET fin_byte == <<TRUE, FALSE, FALSE, FALSE>> \o SubSeq(get_bits_le(ws_opcode % 256), 5, 8)
        payload_hint == IF Len(payload) <= 126 THEN Len(payload) ELSE IF Len(payload) <= 65535 THEN 126 ELSE 127
        mask_byte == <<secure>> \o SubSeq(get_bits_le(payload_hint), 2, 8)
        extended_payload == IF Len(payload) <= 126 THEN <<>> ELSE IF Len(payload) <= 65535 THEN U16(Len(payload)) ELSE U64(Len(payload))
    IN  <<from_bits(fin_byte, TRUE), from_bits(mask_byte, TRUE)>> \o extended_payload \o (IF secure THEN generate_masking_key \o mask_payload(payload) ELSE payload)

\* websocket::create_frame.
create_frame(payload, ws_opcode, secure) ==
    LET fin_byte == <<TRUE, FALSE, FALSE, FALSE>> \o SubSeq(get_bits_le(ws_opcode % 256), 5, 8)
        payload_hint == IF Len(payload) < 126 THEN Len(payload) ELSE IF Len(payload) <= 65535 THEN 126 ELSE 127
        mask_byte == <<secure>> \o SubSeq(get_bits_le(payload_hint), 2, 8)
        extended_payload == IF Len(payload) < 126 THEN <<>> ELSE IF Len(payload) <= 65535 THEN U16(Len(payload)) ELSE U64(Len(payload))
    IN  <<from_bits(fin_byte, TRUE), from_bits(mask_byte, TRUE)>> \o extended_payload \o (IF secure THEN generate_masking_key \o mask_payload(payload) ELSE payload)

\* The frame decoder of the bridge loop, on the unread bytes buf.
payload_hint_of(buf) == from_bits(SubSeq(get_bits_le(buf[2]), 2, 8), TRUE)

mask_hint_of(buf) == get_bits_le(buf[2])[1]

extended_length_size(buf) == IF payload_hint_of(buf) < 126 THEN 0 ELSE IF payload_hint_of(buf) = 126 THEN 2 ELSE 8

\* A 64-bit length the model can hold: the upper five bytes are zero.
length_fits(buf) == payload_hint_of(buf) = 127 => \A i \in 3..7 : buf[i] = 0

payload_length_of(buf) ==
    IF payload_hint_of(buf) < 126 THEN payload_hint_of(buf)
    ELSE IF payload_hint_of(buf) = 126 THEN BeU16(buf[3], buf[4])
    ELSE (buf[8] * 256 + buf[9]) * 256 + buf[10]

header_size(buf) == 2 + extended_length_size(buf) + (IF mask_hint_of(buf) THEN 4 ELSE 0)

\* Every read_exact of one frame can complete on buf.
FrameReady(buf) ==
    /\ Len(buf) >= 2
    /\ Len(buf) >= 2 + extended_length_size(buf)
    /\ length_fits(buf)
    /\ Len(buf) >= header_size(buf) + payload_length_of(buf)

DecodeFrame(buf) ==
    LET raw == SubSeq(buf, header_size(buf) + 1, header_size(buf) + payload_length_of(buf))
        mask_key == SubSeq(buf, header_size(buf) - 3, header_size(buf))
    IN  [fin_flag |-> get_bits_le(buf[1])[1],
         opcode |-> from_bits(SubSeq(get_bits_le(buf[1]), 5, 8), TRUE),
         mask_hint |-> mask_hint_of(buf),
         payload |-> IF mask_hint_of(buf) THEN unmask_payload(mask_key, raw) ELSE raw,
         size |-> header_size(buf) + payload_length_of(buf)]

\* The Close and Pong frames the bridge builds.
\* 1011 "Remote Host Connection Failed"
close_connection_failed == create_frame(U16(1011) \o <<82, 101, 109, 111, 116, 101, 32, 72, 111, 115, 116, 32, 67, 111, 110, 110, 101, 99, 116, 105, 111, 110, 32, 70, 97, 105, 108, 101, 100>>, CONNECTION_CLOSE, FALSE)

\* 1008 "Payload is not Masked"
close_not_masked == create_frame(U16(1008) \o <<80, 97, 121, 108, 111, 97, 100, 32, 105, 115, 32, 110, 111, 116, 32, 77, 97, 115, 107, 101, 100>>, CONNECTION_CLOSE, FALSE)

\* 1011 "Failed to Close Remote Connection"
close_shutdown_failed == create_frame(U16(1011) \o <<70, 97, 105, 108, 101, 100, 32, 116, 111, 32, 67, 108, 111, 115, 101, 32, 82, 101, 109, 111, 116, 101, 32, 67, 111, 110, 110, 101, 99, 116, 105, 111, 110>>, CONNECTION_CLOSE, FALSE)

\* 1000 "Remote Connection Closed"
close_normal == create_frame(U16(1000) \o <<82, 101, 109, 111, 116, 101, 32, 67, 111, 110, 110, 101, 99, 116, 105, 111, 110, 32, 67, 108, 111, 115, 101, 100>>, CONNECTION_CLOSE, FALSE)

\* "Pong"
pong_frame == create_frame(<<80, 111, 110, 103>>, PONG, FALSE)

\* The read buffer of the remote read.
remote_buffer_size == 32768

\* ---- the WebSocket client and the RFB listener behind the bridge
MaxFrames == 3

ClientMaskKey == <<1, 2, 3, 4>>

\* The payload of the client's next data frame: every frame carries its own.
NextPayload == <<Len(ws_sent) + 1>>

WsFrame(fin, ws_opcode, mask, payload) == [fin |-> fin, opcode |-> ws_opcode, mask |-> mask, payload |-> payload]

\* The bytes of a client frame with an inline length.
FrameBytes(f) ==
    <<(IF f.fin THEN 128 ELSE 0) + f.opcode, (IF f.mask THEN 128 ELSE 0) + Len(f.payload)>>
        \o (IF f.mask THEN ClientMaskKey \o unmask_payload(ClientMaskKey, f.payload) ELSE f.payload)

DataFrames(frames) == SelectSeq(frames, LAMBDA f : f.opcode < CONNECTION_CLOSE)

\* The client is inside a fragmented message.
InFragment == DataFrames(ws_sent) # <<>> /\ ~DataFrames(ws_sent)[Len(DataFrames(ws_sent))].fin

\* What a client may send next: whole messages, fragments in sequence,
\* control frames in between, and frames that leave the mask out.
ClientFrames ==
    IF InFragment
    THEN {WsFrame(fin, CONTINUATION_FRAME, TRUE, NextPayload) : fin \in BOOLEAN}
            \cup {WsFrame(TRUE, PING, TRUE, <<>>)}
    ELSE {WsFrame(TRUE, BINARY_FRAME, mask, NextPayload) : mask \in BOOLEAN}
            \cup {WsFrame(FALSE, op, TRUE, NextPayload) : op \in {TEXT_FRAME, BINARY_FRAME}}
            \cup {WsFrame(TRUE, PING, TRUE, <<>>), WsFrame(TRUE, CONNECTION_CLOSE, TRUE, <<>>)}

\* ---- proxy_websocket
\* The connect succeeded; the RFB listener writes its version at once
\* (init_handshake), which the remote socket then holds.
ws_connect ==
    /\ ws_pc = "Connecting"
    /\ ws_pc' = "Loop"
    /\ remote_rx' = protocol_version
    /\ UNCHANGED <<client_rx, in_flight, ws_sent, pending_writes, fin_payload, fin_payload_opcode, ws_handled, remote_written, client_written, remote_shutdown, client_closed>>
    /\ UNCHANGED <<rfbvars, framevars, hextilevars, othervars>>

\* The connect failed: the Close frame is pushed and the function returns.
ws_connect_failed ==
    /\ ws_pc = "Connecting"
    /\ pending_writes' = Append(pending_writes, close_connection_failed)
    /\ ws_pc' = "Returned"
    /\ UNCHANGED <<client_rx, in_flight, ws_sent, fin_payload, fin_payload_opcode, ws_handled, remote_written, remote_rx, client_written, remote_shutdown, client_closed>>
    /\ UNCHANGED <<rfbvars, framevars, hextilevars, othervars>>

\* match opcode, with queued the pending writes so far.
process_payload(ws_opcode, payload, queued) ==
    IF ws_opcode \in {TEXT_FRAME, BINARY_FRAME}
    THEN /\ ws_handled' = Append(ws_handled, <<ws_opcode, payload>>)
         /\ pending_writes' = queued
         /\ IF remote_shutdown
            THEN ws_pc' = "Panicked" /\ UNCHANGED remote_written
            ELSE remote_written' = Append(remote_written, payload) /\ UNCHANGED ws_pc
         /\ UNCHANGED remote_shutdown
    ELSE IF ws_opcode = PING
    THEN /\ ws_handled' = Append(ws_handled, <<ws_opcode, payload>>)
         /\ pending_writes' = Append(queued, pong_frame)
         /\ UNCHANGED <<ws_pc, remote_written, remote_shutdown>>
    ELSE IF ws_opcode = CONNECTION_CLOSE
    THEN /\ ws_handled' = Append(ws_handled, <<ws_opcode, payload>>)
         /\ remote_shutdown' = TRUE
         /\ \E remote_shutdown_is_err \in BOOLEAN :
                pending_writes' = Append(queued, IF remote_shutdown_is_err THEN close_shutdown_failed ELSE close_normal)
         /\ UNCHANGED <<ws_pc, remote_written>>
    ELSE /\ pending_writes' = queued
         /\ UNCHANGED <<ws_pc, ws_handled, remote_written, remote_shutdown>>

\* One turn of the loop in which the header read completes: the frame is
\* read, unmasked, accumulated or dispatched.
ws_read_frame ==
    /\ ws_pc = "Loop"
    /\ FrameReady(client_rx)
    /\ \E f \in {DecodeFrame(client_rx)} :
       \E queued \in {IF f.mask_hint THEN pending_writes ELSE Append(pending_writes, close_not_masked)} :
       \E last_fragment \in {f.fin_flag /\ f.opcode = CONTINUATION_FRAME} :
           /\ client_rx' = Drop(client_rx, f.size)
           /\ IF ~f.fin_flag
              THEN /\ fin_payload_opcode' = IF f.opcode # CONTINUATION_FRAME THEN f.opcode ELSE fin_payload_opcode
                   /\ fin_payload' = fin_payload \o f.payload
                   /\ pending_writes' = queued
                   /\ UNCHANGED <<ws_pc, ws_handled, remote_written, remote_shutdown>>
              ELSE /\ fin_payload' = IF last_fragment THEN <<>> ELSE fin_payload
                   /\ UNCHANGED fin_payload_opcode
                   /\ \E payload \in {IF last_fragment THEN fin_payload \o f.payload ELSE f.payload} :
                          process_payload(IF last_fragment THEN fin_payload_opcode ELSE f.opcode, payload, queued)
    /\ UNCHANGED <<in_flight, ws_sent, remote_rx, client_written, client_closed>>
    /\ UNCHANGED <<rfbvars, framevars, hextilevars, othervars>>

\* The header read timed out after 10 ms: what read_exact had taken of the
\* header goes with the dropped future; then the remote is read and every
\* pending write is written to the client.
ws_rx_timeout ==
    /\ ws_pc = "Loop"
    /\ Len(client_rx) < 2
    /\ ~(client_closed /\ in_flight = <<>>)
    /\ ~(rfb_eof /\ remote_rx = <<>>)
    /\ client_rx' = <<>>
    /\ \E writes \in {IF remote_rx # <<>> THEN Append(pending_writes, create_frame(Take(remote_rx, Min(Len(remote_rx), remote_buffer_size)), BINARY_FRAME, FALSE)) ELSE pending_writes} :
            client_written' = client_written \o writes
    /\ pending_writes' = <<>>
    /\ remote_rx' = Drop(remote_rx, Min(Len(remote_rx), remote_buffer_size))
    /\ UNCHANGED <<ws_pc, in_flight, ws_sent, fin_payload, fin_payload_opcode, ws_handled, remote_written, remote_shutdown, client_closed>>
    /\ UNCHANGED <<rfbvars, framevars, hextilevars, othervars>>

\* The header read met the end of the client's stream.
ws_read_eof ==
    /\ ws_pc = "Loop"
    /\ client_closed /\ in_flight = <<>>
    /\ Len(client_rx) < 2
    /\ remote_shutdown' = TRUE
    /\ ws_pc' \in {"Returned", "Panicked"}
    /\ UNCHANGED <<client_rx, in_flight, ws_sent, pending_writes, fin_payload, fin_payload_opcode, ws_handled, remote_written, remote_rx, client_written, client_closed>>
    /\ UNCHANGED <<rfbvars, framevars, hextilevars, othervars>>

\* A read inside a frame met the end of the client's stream: unwrap panics.
ws_read_truncated ==
    /\ ws_pc = "Loop"
    /\ client_closed /\ in_flight = <<>>
    /\ Len(client_rx) >= 2 /\ ~FrameReady(client_rx)
    /\ ws_pc' = "Panicked"
    /\ UNCHANGED <<client_rx, in_flight, ws_sent, pending_writes, fin_payload, fin_payload_opcode, ws_handled, remote_written, remote_rx, client_written, remote_shutdown, client_closed>>
    /\ UNCHANGED <<rfbvars, framevars, hextilevars, othervars>>

\* ---- the environment of the bridge
\* The client sends a frame; it arrives whole, or its first byte arrives
\* ahead of the rest.
ws_client_send ==
    /\ ws_pc = "Loop"
    /\ ~client_closed
    /\ in_flight = <<>>
    /\ ~FrameReady(client_rx)
    /\ Len(ws_sent) < MaxFrames
    /\ \E f \in ClientFrames : \E arrived \in {1, Len(FrameBytes(f))} :
            /\ client_rx' = client_rx \o Take(FrameBytes(f), arrived)
            /\ in_flight' = Drop(FrameBytes(f), arrived)
            /\ ws_sent' = Append(ws_sent, f)
    /\ UNCHANGED <<ws_pc, pending_writes, fin_payload, fin_payload_opcode, ws_handled, remote_written, remote_rx, client_written, remote_shutdown, client_closed>>
    /\ UNCHANGED <<rfbvars, framevars, hextilevars, othervars>>

ws_deliver ==
    /\ in_flight # <<>>
    /\ client_rx' = client_rx \o in_flight
    /\ in_flight' = <<>>
    /\ UNCHANGED <<ws_pc, ws_sent, pending_writes, fin_payload, fin_payload_opcode, ws_handled, remote_written, remote_rx, client_written, remote_shutdown, client_closed>>
    /\ UNCHANGED <<rfbvars, framevars, hextilevars, othervars>>

\* An unsolicited Pong, the client's heartbeat; it can be sent without end
\* and is not logged in ws_sent.
ws_client_keepalive ==
    /\ ws_pc = "Loop"
    /\ ~client_closed
    /\ in_flight = <<>>
    /\ client_rx = <<>>
    /\ client_rx' = FrameBytes(WsFrame(TRUE, PONG, TRUE, <<>>))
    /\ UNCHANGED <<ws_pc, in_flight, ws_sent, pending_writes, fin_payload, fin_payload_opcode, ws_handled, remote_written, remote_rx, client_written, remote_shutdown, client_closed>>
    /\ UNCHANGED <<rfbvars, framevars, hextilevars, othervars>>

ws_client_close ==
    /\ ws_pc = "Loop"
    /\ ~client_closed
    /\ client_closed' = TRUE
    /\ UNCHANGED <<ws_pc, client_rx, in_flight, ws_sent, pending_writes, fin_payload, fin_payload_opcode, ws_handled, remote_written, remote_rx, client_written, remote_shutdown>>
    /\ UNCHANGED <<rfbvars, framevars, hextilevars, othervars>>

InitBridge ==
    /\ ServerIdle
    /\ FramerIdle
    /\ HextileIdle
    /\ OthersIdle
    /\ ws_pc = "Connecting"
    /\ client_rx = <<>>
    /\ in_flight = <<>>
    /\ ws_sent = <<>>
    /\ pending_writes = <<>>
    /\ fin_payload = <<>>
    /\ fin_payload_opcode = 0
    /\ ws_handled = <<>>
    /\ remote_written = <<>>
    /\ remote_rx = <<>>
    /\ client_written = <<>>
    /\ remote_shutdown = FALSE
    /\ client_closed = FALSE

NextBridge ==
    \/ ws_connect
    \/ ws_connect_failed
    \/ ws_read_frame
    \/ ws_rx_timeout
    \/ ws_read_eof
    \/ ws_read_truncated
    \/ ws_client_send
    \/ ws_deliver
    \/ ws_client_keepalive
    \/ ws_client_close

SpecBridge == InitBridge /\ [][NextBridge]_vars

\* The bridge task runs whenever it can take a turn, and bytes in flight
\* arrive; nothing is assumed of the client or of the RFB listener.
SpecBridgeFair == SpecBridge /\ WF_vars(ws_connect \/ ws_connect_failed) /\ WF_vars(ws_read_frame) /\ WF_vars(ws_rx_timeout) /\ WF_vars(ws_read_eof \/ ws_read_truncated) /\ WF_vars(ws_deliver)

\* ---- create_frame and the decoder, applied to payloads of chosen lengths
MaxFrameLength == 65536

\* The lengths on both sides of each length encoding.
FrameLengths == {0, 1, 125, 126, 127, 65535, MaxFrameLength}

PayloadOfLength(n) == [i \in 1..n |-> i % 256]

FrameOpcodes == 0..15

InitFramer ==
    /\ ServerIdle
    /\ BridgeIdle
    /\ HextileIdle
    /\ OthersIdle
    /\ frame_payload \in {PayloadOfLength(n) : n \in FrameLengths}
    /\ frame_opcode \in FrameOpcodes
    /\ websocket_frame = <<>>
    /\ decoded = <<>>

framer_create_frame ==
    /\ websocket_frame = <<>>
    /\ websocket_frame' = create_frame(frame_payload, frame_opcode, FALSE)
    /\ UNCHANGED <<frame_payload, frame_opcode, decoded>>
    /\ UNCHANGED <<rfbvars, wsvars, hextilevars, othervars>>

framer_decode ==
    /\ websocket_frame # <<>>
    /\ decoded = <<>>
    /\ FrameReady(websocket_frame)
    /\ decoded' = <<DecodeFrame(websocket_frame)>>
    /\ UNCHANGED <<frame_payload, frame_opcode, websocket_frame>>
    /\ UNCHANGED <<rfbvars, wsvars, hextilevars, othervars>>

NextFramer == framer_create_frame \/ framer_decode

SpecFramer == InitFramer /\ [][NextFramer]_vars

\* ----------------------------------------------------------------- hextile
HEXTILE_WIDTH == 16
HEXTILE_HEIGHT == 16

\* The rectangles handed to encode: MaxTilesAcross tiles in a row, the last
\* one full or PartialWidth pixels wide; up to MaxTileRows rows, or one row
\* more than a tile is high.
MaxTilesAcross == 2
MaxTileRows == 2
PartialWidth == 3

\* What fills a tile: one colour, another colour, columns of alternating
\* colour (all rows alike), rows of alternating colour (each row uniform).
TilePatterns == {"A", "B", "Columns", "Rows"}

PatternColour(pattern, col, row) ==
    IF pattern = "A" THEN 1
    ELSE IF pattern = "B" THEN 2
    ELSE IF pattern = "Columns" THEN 1 + (col % 2)
    ELSE 1 + (row % 2)

ColourBytes(colour, bytes_per_pixel) == [b \in 1..bytes_per_pixel |-> IF b = 1 THEN colour ELSE 200 + b]

\* The FrameBuffer whose tile column k is filled with patterns[k]: byte j
\* of raw_pixels belongs to pixel (j - 1) \div bytes_per_pixel, row-major.
PatternPixelByte(patterns, width, bytes_per_pixel, j) ==
    LET i == (j - 1) \div bytes_per_pixel
    IN  ColourBytes(PatternColour(patterns[((i % width) \div HEXTILE_WIDTH) + 1], i % width, i \div width), bytes_per_pixel)[((j - 1) % bytes_per_pixel) + 1]

PatternFrameBuffer(patterns, width, height, bits_per_pixel) ==
    [width |-> width, height |-> height, bits_per_pixel |-> bits_per_pixel,
     raw_pixels |-> [j \in 1..(width * height * (bits_per_pixel \div 8)) |-> PatternPixelByte(patterns, width, bits_per_pixel \div 8, j)]]

HextileFrameBuffers ==
    {PatternFrameBuffer(patterns, width, height, bits_per_pixel) :
        patterns \in [1..MaxTilesAcross -> TilePatterns],
        width \in {HEXTILE_WIDTH * MaxTilesAcross, HEXTILE_WIDTH * (MaxTilesAcross - 1) + PartialWidth},
        height \in (1..MaxTileRows) \cup {HEXTILE_HEIGHT + 1},
        bits_per_pixel \in {4, 8, 32}}

\* encode: the locals computed before the loop.
hextile_bytes_per_pixel(fb) == fb.bits_per_pixel \div 8

h_tiles(fb) == CeilDiv(fb.width, HEXTILE_WIDTH)

v_tiles(fb) == CeilDiv(fb.height, HEXTILE_HEIGHT)

\* width * bytes_per_pixel is a product of two u16: the length of a scan
\* line as encode computes it, where the build lets the product wrap.
scan_line_length(fb) == (fb.width * hextile_bytes_per_pixel(fb)) % (2 ^ 16)

hscan_lines(fb) == ChunksExact(fb.raw_pixels, scan_line_length(fb))

\* The scan lines of tile ctr, as the inner loop slices them.
tile_scan_lines(fb, ctr) ==
    LET vertical_progress == ctr \div h_tiles(fb)
        horizontal_progress == ctr % h_tiles(fb)
        start == vertical_progress * HEXTILE_HEIGHT
        end == Min(start + HEXTILE_HEIGHT, Len(hscan_lines(fb)))
        h_start == horizontal_progress * hextile_bytes_per_pixel(fb) * HEXTILE_WIDTH
        h_end == Min(h_start + HEXTILE_HEIGHT * hextile_bytes_per_pixel(fb), scan_line_length(fb))
    IN  [n \in 1..(end - start) |-> SubSeq(hscan_lines(fb)[start + n], h_start + 1, h_end)]

\* The loop turn for tile ctr panics: a slice that starts behind the end of
\* its scan line, or tile_pixels[subpixel] on a tile that is taken for solid
\* and holds less than one pixel.
hextile_tile_panics(fb, ctr, previous, solid) ==
    LET lines == tile_scan_lines(fb, ctr)
        previous_after == IF previous = <<>> /\ Len(lines) > 0 THEN lines[1] ELSE previous
        solid_after == solid /\ \A n \in 1..Len(lines) : lines[n] = previous_after
    IN  \/ Len(lines) > 0 /\ (ctr % h_tiles(fb)) * hextile_bytes_per_pixel(fb) * HEXTILE_WIDTH > scan_line_length(fb)
        \/ solid_after /\ SumSeq([n \in 1..Len(lines) |-> Len(lines[n])]) < hextile_bytes_per_pixel(fb)

\* hextile_tile with the colour of "no tile yet" taken to match any solid
\* colour: the first solid tile is then pushed as 0.
hextile_tile_unset_colour_matches(fb, ctr, previous, solid, previous_colour) ==
    LET lines == tile_scan_lines(fb, ctr)
        tile_pixels == Flatten(lines)
        previous_after == IF previous = <<>> THEN lines[1] ELSE previous
        solid_after == solid /\ \A n \in 1..Len(lines) : lines[n] = previous_after
        solid_color == Take(tile_pixels, hextile_bytes_per_pixel(fb))
        same == solid_color = previous_colour \/ previous_colour = <<>>
    IN  [previous_scan_line |-> previous_after,
         solid_tile |-> solid_after,
         solid_previous_tile |-> IF solid_after /\ ~same THEN solid_color ELSE previous_colour,
         emitted |-> IF solid_after THEN (IF same THEN <<0>> ELSE <<2>> \o solid_color) ELSE <<1>> \o tile_pixels]

\* One turn of the loop over the tiles: the locals after it and the bytes
\* pushed onto hextiles.
hextile_tile(fb, ctr, previous, solid, previous_colour) ==
    LET lines == tile_scan_lines(fb, ctr)
        tile_pixels == Flatten(lines)
        previous_after == IF previous = <<>> THEN lines[1] ELSE previous
        solid_after == solid /\ \A n \in 1..Len(lines) : lines[n] = previous_after
        solid_color == Take(tile_pixels, hextile_bytes_per_pixel(fb))
    IN  [previous_scan_line |-> previous_after,
         solid_tile |-> solid_after,
         solid_previous_tile |-> IF solid_after /\ solid_color # previous_colour THEN solid_color ELSE previous_colour,
         emitted |-> IF solid_after THEN (IF solid_color = previous_colour THEN <<0>> ELSE <<2>> \o solid_color) ELSE <<1>> \o tile_pixels]

InitHextile ==
    /\ ServerIdle
    /\ BridgeIdle
    /\ FramerIdle
    /\ OthersIdle
    /\ hextile_framebuffer \in HextileFrameBuffers
    /\ hextile_ctr = -1
    /\ solid_previous_tile = <<>>
    /\ previous_scan_line = <<>>
    /\ solid_tile = TRUE
    /\ hextiles = <<>>
    /\ hextile_pixels = <<>>
    /\ overflow_checks \in BOOLEAN

\* get_pixel_data calls encode for a rectangle that is not empty; encode
\* reaches its loop when chunks_exact is given a chunk size above zero.
hextile_encode ==
    /\ hextile_ctr = -1
    /\ hextile_framebuffer.width > 0 /\ hextile_framebuffer.height > 0
    /\ scan_line_length(hextile_framebuffer) > 0
    /\ ~(overflow_checks /\ hextile_framebuffer.width * hextile_bytes_per_pixel(hextile_framebuffer) >= 2 ^ 16)
    /\ hextile_ctr' = 0
    /\ UNCHANGED <<hextile_framebuffer, solid_previous_tile, previous_scan_line, solid_tile, hextiles, hextile_pixels, overflow_checks>>
    /\ UNCHANGED <<rfbvars, wsvars, framevars, othervars>>

\* Fewer than eight bits per pixel make bytes_per_pixel zero, and
\* chunks_exact(0) panics before any tile is pushed; so does a product
\* width * bytes_per_pixel that wraps to zero, and, in a build that traps
\* overflow, any product beyond u16.  hextile_ctr = -2 is the unwound call.
hextile_encode_panics ==
    /\ hextile_ctr = -1
    /\ hextile_framebuffer.width > 0 /\ hextile_framebuffer.height > 0
    /\ \/ scan_line_length(hextile_framebuffer) = 0
       \/ overflow_checks /\ hextile_framebuffer.width * hextile_bytes_per_pixel(hextile_framebuffer) >= 2 ^ 16
    /\ hextile_ctr' = -2
    /\ UNCHANGED <<hextile_framebuffer, solid_previous_tile, previous_scan_line, solid_tile, hextiles, hextile_pixels, overflow_checks>>
    /\ UNCHANGED <<rfbvars, wsvars, framevars, othervars>>

hextile_next_tile ==
    /\ hextile_ctr >= 0
    /\ hextile_ctr < v_tiles(hextile_framebuffer) * h_tiles(hextile_framebuffer)
    /\ ~hextile_tile_panics(hextile_framebuffer, hextile_ctr, previous_scan_line, solid_tile)
    /\ hextile_pixels' = Flatten(tile_scan_lines(hextile_framebuffer, hextile_ctr))
    /\ \E after \in {hextile_tile(hextile_framebuffer, hextile_ctr, previous_scan_line, solid_tile, solid_previous_tile)} :
            /\ previous_scan_line' = after.previous_scan_line
            /\ solid_tile' = after.solid_tile
            /\ solid_previous_tile' = after.solid_previous_tile
            /\ hextiles' = hextiles \o after.emitted
    /\ hextile_ctr' = hextile_ctr + 1
    /\ UNCHANGED <<hextile_framebuffer, overflow_checks>>
    /\ UNCHANGED <<rfbvars, wsvars, framevars, othervars>>

\* A loop turn that panics: encode unwinds and nothing is returned.
hextile_next_tile_panics ==
    /\ hextile_ctr >= 0
    /\ hextile_ctr < v_tiles(hextile_framebuffer) * h_tiles(hextile_framebuffer)
    /\ hextile_tile_panics(hextile_framebuffer, hextile_ctr, previous_scan_line, solid_tile)
    /\ hextile_ctr' = -2
    /\ UNCHANGED <<hextile_framebuffer, solid_previous_tile, previous_scan_line, solid_tile, hextiles, hextile_pixels, overflow_checks>>
    /\ UNCHANGED <<rfbvars, wsvars, framevars, othervars>>

NextHextile == hextile_encode \/ hextile_encode_panics \/ hextile_next_tile

SpecHextile == InitHextile /\ [][NextHextile]_vars

\* -------------------------------------------------------------- ZRLE loop
\* encoding_zrle::encode turn by turn, and both tiled encoders on
\* rectangles whose bytes tell where in the source they stand.

\* Byte j of a rectangle of 32-bit pixels.  "Offsets": the byte is its own
\* offset (modulo a prime that no tile or line length divides), so no two
\* bytes near each other are alike.  The other contents are by tile: one
\* colour everywhere, one colour per tile, alternating columns, and
\* alternating columns in the first column of tiles with one colour per tile
\* in the others.
ContentByte(content, width, tile_w, tile_h, j) ==
    LET i == (j - 1) \div 4
        col == i % width
        row == i \div width
        colour == IF content = "One" THEN 1
                  ELSE IF content = "PerTile" \/ (content = "Mixed" /\ col >= tile_w) THEN 1 + (col \div tile_w) + 2 * (row \div tile_h)
                  ELSE 1 + (col % 2)
    IN  IF content = "Offsets" THEN (j - 1) % 251
        ELSE IF (j - 1) % 4 = 0 THEN colour ELSE 200 + ((j - 1) % 4)

ContentFrameBuffer(content, width, height, tile_w, tile_h) ==
    LET raw == SubSeq([j \in 1..(4 * width * height) |-> ContentByte(content, width, tile_w, tile_h, j)], 1, 4 * width * height)
    IN  [width |-> width, height |-> height, bits_per_pixel |-> 32, raw_pixels |-> raw, encoded_pixels |-> c_pixels(raw)]

\* Widths and heights around the tile size, up to MaxTilesAcross tiles in a
\* row and two rows of tiles.
TilingWidths(tile_w) == {PartialWidth, tile_w, tile_w * (MaxTilesAcross - 1) + PartialWidth, tile_w * MaxTilesAcross}

TilingHeights(tile_h) == {1, tile_h, tile_h + 1}

\* The narrowest rectangle whose scan line is longer than a u16 holds.
OverlongWidth(bytes) == ((2 ^ 16) \div bytes) + 1

ZrleContents == {"Offsets", "One", "PerTile", "Columns", "Mixed"}

\* The rectangles of these contents for tiles of tile_w x tile_h, and one
\* overlong line of bytes bytes per pixel.
TilingFrameBuffers(contents, tile_w, tile_h, bytes) ==
    {ContentFrameBuffer(content, width, height, tile_w, tile_h) : content \in contents, width \in TilingWidths(tile_w), height \in TilingHeights(tile_h)}
        \cup {ContentFrameBuffer("Offsets", OverlongWidth(bytes), 1, tile_w, tile_h)}

\* The loop turn for tile ctr panics: a slice that starts behind the end of
\* its scan line, or tile_chunks[0] in solid_zrletile_color on a tile without
\* pixels.
zrle_tile_panics(framebuffer, ctr) ==
    LET start == (ctr \div zrle_h_tiles(framebuffer)) * ZRLE_TILE_HEIGHT
        end == Min(start + ZRLE_TILE_HEIGHT, Len(zrle_hscan_lines(framebuffer)))
        h_start == (ctr % zrle_h_tiles(framebuffer)) * bytes_per_cpixel(framebuffer) * ZRLE_TILE_WIDTH
    IN  \/ end > start /\ h_start > zrle_scan_line_length(framebuffer)
        \/ end <= start
        \/ h_start = zrle_scan_line_length(framebuffer)

\* get_pixel_data calls encode for a rectangle that is not empty.
zrle_encode_start ==
    /\ zrletile_ctr = -1
    /\ zrle_framebuffer.width > 0 /\ zrle_framebuffer.height > 0
    /\ zrle_scan_line_length(zrle_framebuffer) > 0
    /\ ~(overflow_checks /\ zrle_framebuffer.width * bytes_per_cpixel(zrle_framebuffer) >= 2 ^ 16)
    /\ zrletile_ctr' = 0
    /\ UNCHANGED <<zrle_framebuffer, zrletile_pixels, zrle_tiles>>
    /\ UNCHANGED zrle_rest

\* chunks_exact(0) panics, and so does, in a build that traps overflow, a
\* product width * bytes_per_cpixel beyond u16.
zrle_encode_panics ==
    /\ zrletile_ctr = -1
    /\ zrle_framebuffer.width > 0 /\ zrle_framebuffer.height > 0
    /\ \/ zrle_scan_line_length(zrle_framebuffer) = 0
       \/ overflow_checks /\ zrle_framebuffer.width * bytes_per_cpixel(zrle_framebuffer) >= 2 ^ 16
    /\ zrletile_ctr' = -2
    /\ UNCHANGED <<zrle_framebuffer, zrletile_pixels, zrle_tiles>>
    /\ UNCHANGED zrle_rest

zrle_next_tile ==
    /\ zrletile_ctr >= 0
    /\ zrletile_ctr < zrle_v_tiles(zrle_framebuffer) * zrle_h_tiles(zrle_framebuffer)
    /\ ~zrle_tile_panics(zrle_framebuffer, zrletile_ctr)
    /\ zrletile_pixels' = zrle_tile_pixels(zrle_hscan_lines(zrle_framebuffer), zrletile_ctr, zrle_h_tiles(zrle_framebuffer), bytes_per_cpixel(zrle_framebuffer))
    /\ zrle_tiles' = zrle_tiles \o zrle_tile(zrle_framebuffer, zrletile_ctr)
    /\ zrletile_ctr' = zrletile_ctr + 1
    /\ UNCHANGED zrle_framebuffer
    /\ UNCHANGED zrle_rest

zrle_next_tile_panics ==
    /\ zrletile_ctr >= 0
    /\ zrletile_ctr < zrle_v_tiles(zrle_framebuffer) * zrle_h_tiles(zrle_framebuffer)
    /\ zrle_tile_panics(zrle_framebuffer, zrletile_ctr)
    /\ zrletile_ctr' = -2
    /\ UNCHANGED <<zrle_framebuffer, zrletile_pixels, zrle_tiles>>
    /\ UNCHANGED zrle_rest

\* One rectangle is encoded, by the one encoder or the other, in a build of
\* the one profile or the other.
InitTiling ==
    /\ ServerIdle
    /\ BridgeIdle
    /\ FramerIdle
    /\ TranscodeIdle
    /\ BitsIdle
    /\ ApiIdle
    /\ IpcIdle
    /\ PacketIdle
    /\ LinkIdle
    /\ EncodersIdle
    /\ LocksIdle
    /\ TasksIdle
    /\ EofIdle
    /\ overflow_checks \in BOOLEAN
    /\ hextile_ctr = -1
    /\ solid_previous_tile = <<>>
    /\ previous_scan_line = <<>>
    /\ solid_tile = TRUE
    /\ hextiles = <<>>
    /\ hextile_pixels = <<>>
    /\ zrletile_ctr = -1
    /\ zrletile_pixels = <<>>
    /\ zrle_tiles = <<>>
    /\ \/ hextile_framebuffer \in TilingFrameBuffers({"Offsets"}, HEXTILE_WIDTH, HEXTILE_HEIGHT, 4) /\ zrle_framebuffer = [width |-> 0, height |-> 0, bits_per_pixel |-> 32, raw_pixels |-> <<>>, encoded_pixels |-> <<>>]
       \/ zrle_framebuffer \in TilingFrameBuffers(ZrleContents, ZRLE_TILE_WIDTH, ZRLE_TILE_HEIGHT, 3) /\ hextile_framebuffer = [width |-> 0, height |-> 0, bits_per_pixel |-> 8, raw_pixels |-> <<>>]

NextTiling ==
    \/ hextile_encode
    \/ hextile_encode_panics
    \/ hextile_next_tile
    \/ hextile_next_tile_panics
    \/ zrle_encode_start
    \/ zrle_encode_panics
    \/ zrle_next_tile
    \/ zrle_next_tile_panics

SpecTiling == InitTiling /\ [][NextTiling]_vars

\* -------------------------------------------------------------- transcode
\* The loop of rectangle_framebuffer_update that rewrites the captured
\* pixels for the viewer's PixelFormat, on its own.

\* The shifts a viewer may negotiate: whole bytes, the 5-6-5 positions of a
\* 16-bit format, and one beyond the pixel.
NegotiatedShifts == {0, 5, 8, 11, 16, 24, 32}

NegotiatedFormats ==
    {[ClientFormat EXCEPT !.bits_per_pixel = bits, !.red_shift = red, !.green_shift = green, !.blue_shift = blue] :
        bits \in {16, 32}, red \in NegotiatedShifts, green \in NegotiatedShifts, blue \in NegotiatedShifts}

InitTranscode ==
    /\ auth = <<>>
    /\ wm \in {"X11", "WIN32"}
    /\ ServerNew
    /\ BridgeIdle
    /\ FramerIdle
    /\ HextileIdle
    /\ ZrleIdle
    /\ BitsIdle
    /\ ApiIdle
    /\ IpcIdle
    /\ PacketIdle
    /\ LinkIdle
    /\ EncodersIdle
    /\ LocksIdle
    /\ TasksIdle
    /\ EofIdle
    /\ tc_pixelformat \in NegotiatedFormats
    /\ tc_capture = Capture(0, 0, ScreenWidth, ScreenHeight)
    /\ tc_pixel_data = <<>>
    /\ tc_pc = "Captured"

\* The loop runs to its end.
transcode ==
    /\ tc_pc = "Captured"
    /\ ~TranscodePanics(tc_capture, tc_pixelformat)
    /\ tc_pixel_data' = Transcode(tc_capture, tc_pixelformat)
    /\ tc_pc' = "Transcoded"
    /\ UNCHANGED <<tc_pixelformat, tc_capture>>
    /\ UNCHANGED <<rfbvars, transcode_rest>>

\* A shift of 32 or more indexes outside the four-byte pixel.
transcode_panics ==
    /\ tc_pc = "Captured"
    /\ TranscodePanics(tc_capture, tc_pixelformat)
    /\ tc_pc' = "Panicked"
    /\ UNCHANGED <<tc_pixelformat, tc_capture, tc_pixel_data>>
    /\ UNCHANGED <<rfbvars, transcode_rest>>

NextTranscode == transcode \/ transcode_panics

SpecTranscode == InitTranscode /\ [][NextTranscode]_vars

\* ---------------------------------------------------------------- GetBits
\* GetBits for u16 and u64 has the code of the u8 one.  An integer of
\* width bits is held as width / 8 bytes, the low byte first, so that a
\* 64-bit value needs no number beyond a byte.
IntegerBit(integer, index) == (integer[(index \div 8) + 1] \div (2 ^ (index % 8))) % 2 = 1

\* get_bits_be pushes (self >> index & 1) == 1 for index 0, 1, ...
get_bits_be_wide(integer) == [index \in 1..(8 * Len(integer)) |-> IntegerBit(integer, index - 1)]

\* get_bits_le is get_bits_be reversed.
get_bits_le_wide(integer) == [index \in 1..(8 * Len(integer)) |-> get_bits_be_wide(integer)[8 * Len(integer) + 1 - index]]

\* from_bits with the padding put behind the bits.
from_bits_wide_padded_behind(width, bits, is_le) ==
    LET padded(i) == i <= Len(bits) /\ bits[i]
        bits_added(i) == IF is_le THEN padded(width + 1 - i) ELSE padded(i)
        weight(i, k) == IF bits_added(i) THEN 2 ^ k ELSE 0
    IN  [d \in 1..(width \div 8) |-> weight(8 * d - 7, 0) + weight(8 * d - 6, 1) + weight(8 * d - 5, 2) + weight(8 * d - 4, 3) + weight(8 * d - 3, 4) + weight(8 * d - 2, 5) + weight(8 * d - 1, 6) + weight(8 * d, 7)]

\* from_bits for a vector of at most width bits: bits_added is width -
\* len falses and then bits, reversed when is_le; bit index of the integer is
\* set for every true bits_added[index].
from_bits_wide(width, bits, is_le) ==
    LET padded(i) == i > width - Len(bits) /\ bits[i - (width - Len(bits))]
        bits_added(i) == IF is_le THEN padded(width + 1 - i) ELSE padded(i)
        weight(i, k) == IF bits_added(i) THEN 2 ^ k ELSE 0
    IN  [d \in 1..(width \div 8) |-> weight(8 * d - 7, 0) + weight(8 * d - 6, 1) + weight(8 * d - 5, 2) + weight(8 * d - 4, 3) + weight(8 * d - 3, 4) + weight(8 * d - 2, 5) + weight(8 * d - 1, 6) + weight(8 * d, 7)]

\* The integers tried: every u8; of the wider types zero, every value with
\* one bit set, every value with one bit clear, and all ones.
MaxShortBits == 7

OneBit(width, k, set) == [d \in 1..(width \div 8) |-> IF (k \div 8) + 1 = d THEN (IF set THEN 2 ^ (k % 8) ELSE 255 - 2 ^ (k % 8)) ELSE (IF set THEN 0 ELSE 255)]

Integers(width) ==
    IF width = 8 THEN {<<x>> : x \in 0..255}
    ELSE {OneBit(width, k, set) : k \in 0..(width - 1), set \in BOOLEAN} \cup {[d \in 1..(width \div 8) |-> 0], [d \in 1..(width \div 8) |-> 255]}

\* The vectors shorter than the type: up to MaxShortBits bits (and one bit
\* less than the type) with one bit true, with one bit false, or all false.
ShortBits(width) ==
    {[i \in 1..n |-> (i = j) = set] : n \in (1..Min(MaxShortBits, width - 1)) \cup {width - 1}, j \in 0..MaxShortBits, set \in BOOLEAN} \cup {<<>>}

InitBits ==
    /\ ServerIdle
    /\ BridgeIdle
    /\ FramerIdle
    /\ HextileIdle
    /\ ZrleIdle
    /\ TranscodeIdle
    /\ ApiIdle
    /\ IpcIdle
    /\ PacketIdle
    /\ LinkIdle
    /\ EncodersIdle
    /\ LocksIdle
    /\ TasksIdle
    /\ EofIdle
    /\ gb_width \in {8, 16, 64}
    /\ gb_is_le \in BOOLEAN
    /\ \/ gb_integer \in Integers(gb_width) /\ gb_bits = <<>>
       \/ gb_integer = <<>> /\ gb_bits \in ShortBits(gb_width)
    /\ gb_from_bits = <<>>

\* get_bits_le or get_bits_be of the integer.
get_bits ==
    /\ gb_integer # <<>>
    /\ gb_bits = <<>>
    /\ gb_bits' = IF gb_width = 8
                  THEN (IF gb_is_le THEN get_bits_le(gb_integer[1]) ELSE get_bits_be(gb_integer[1]))
                  ELSE (IF gb_is_le THEN get_bits_le_wide(gb_integer) ELSE get_bits_be_wide(gb_integer))
    /\ UNCHANGED <<gb_width, gb_integer, gb_is_le, gb_from_bits>>
    /\ UNCHANGED bits_rest

\* from_bits of the vector.
from_bits_call ==
    /\ gb_from_bits = <<>>
    /\ gb_integer # <<>> => gb_bits # <<>>
    /\ gb_from_bits' = IF gb_width = 8 THEN <<from_bits(gb_bits, gb_is_le)>> ELSE from_bits_wide(gb_width, gb_bits, gb_is_le)
    /\ UNCHANGED <<gb_width, gb_integer, gb_bits, gb_is_le>>
    /\ UNCHANGED bits_rest

NextBits == get_bits \/ from_bits_call

SpecBits == InitBits /\ [][NextBits]_vars

\* ------------------------------------------------------ HTTP status routes
\* A pair key is an opaque string; Sha256 is taken as free of collisions on
\* the keys tried, and a digest is written in hexadecimal in upper or lower
\* case.  format!("{:X}") writes upper case; the configuration may hold
\* either, and eq_ignore_ascii_case compares them.
PairKeys == {"key1", "key2", "key3"}

Sha256(key) == [digest |-> key, upper |-> TRUE]

eq_ignore_ascii_case(hash, other) == hash.digest = other.digest

ConfiguredHashes == {[digest |-> key, upper |-> upper] : key \in {"key1", "key2"}, upper \in BOOLEAN}

\* authenticate::server: the key's digest is compared to every configured
\* hash.
authenticate_server(hash) == \E server_hash \in paired_servers : eq_ignore_ascii_case(server_hash, Sha256(hash))

NoHeader == "no header"

Uris == {"/", "/api/status", "/api/sessions", "/api/screenshot", "/api/power/lock", "/api/power/logoff", "/api/power/shutdown", "/api/power/reboot", "/api/power/off", "/other"}

\* The requests tried: an HTTP/1.1 request with a method, a path, a pairkey
\* header or none, and a Sec-WebSocket-Version header (13, another) or none
\* (0).  The daemon is tried with GET only.
WebsocketVersions == {0, 8, 13}

ApiRequests(service) ==
    [method : IF service = "webapi" THEN {"GET"} ELSE {"GET", "POST"}, uri : Uris, pairkey : PairKeys \cup {NoHeader}, websocket_version : IF service = "webapi" THEN {0} ELSE WebsocketVersions]

\* parser::http::get_request_uri and get_websocket_version: the method and
\* the path of the request line, and the version header as a number, 0 without
\* one.
get_request_uri(request) == <<request.method, request.uri>>

get_websocket_version(request) == request.websocket_version

Response(status, body) == [status |-> status, body |-> body]

\* uri.starts_with("/api/power"), of the paths tried.
starts_with_api_power(uri) == uri \in {"/api/power/lock", "/api/power/logoff", "/api/power/shutdown", "/api/power/reboot", "/api/power/off"}

\* get_routes: the handler of a path of the daemon, and whether
\* is_paired_server is laid over it.
RouteHandler(uri) ==
    CASE uri = "/" -> [handler |-> "root", layer |-> FALSE]
      [] uri = "/api/status" -> [handler |-> "get_status", layer |-> TRUE]
      [] uri = "/api/sessions" -> [handler |-> "get_sessions", layer |-> TRUE]
      [] OTHER -> [handler |-> "none", layer |-> FALSE]

\* is_paired_server: next.run only with a pairkey header that
\* authenticate::server accepts.
is_paired_server(request) ==
    IF request.pairkey # NoHeader
    THEN IF authenticate_server(request.pairkey) THEN "next" ELSE "Server Not Paired"
    ELSE "Pair Key is Not Present"

\* The daemon answers a request: the router, the layer, the handler.
webapi_request ==
    /\ api_service = "webapi"
    /\ api_response = <<>>
    /\ LET route == RouteHandler(api_request.uri)
           paired == is_paired_server(api_request)
       IN  IF route.handler = "none"
           THEN api_response' = Response(404, "") /\ api_action' = "none"
           ELSE IF route.layer /\ paired # "next"
                THEN api_response' = Response(401, paired) /\ api_action' = "none"
                ELSE api_response' = Response(200, route.handler) /\ api_action' = route.handler
    /\ UNCHANGED <<paired_servers, api_windows, api_service, api_request>>
    /\ UNCHANGED api_rest

\* get_api_response: the response and what is done for it.  The calls of
\* win32 are compiled for Windows only; elsewhere the screenshot indexes an
\* empty frame_buffer.
get_api_response(uri, windows, connected) ==
    IF uri[1] # "GET" THEN [response |-> Response(404, "not found"), action |-> "none"]
    ELSE IF uri[2] = "/" THEN [response |-> Response(200, "banner"), action |-> "none"]
    ELSE IF starts_with_api_power(uri[2])
         THEN LET action == CASE uri[2] = "/api/power/lock" -> "lock_workstation"
                              [] uri[2] = "/api/power/logoff" -> "logoff"
                              [] uri[2] = "/api/power/shutdown" -> "shutdown"
                              [] uri[2] = "/api/power/reboot" -> "restart"
                              [] OTHER -> "none"
              IN  [response |-> Response(200, "status"), action |-> IF windows THEN action ELSE "none"]
    ELSE IF uri[2] = "/api/screenshot"
         THEN IF windows /\ connected
              THEN [response |-> Response(200, "png"), action |-> "rectangle_framebuffer_update"]
              ELSE [response |-> Response(0, "panic"), action |-> "none"]
    ELSE [response |-> Response(404, "not found"), action |-> "none"]

\* handle_wsclient: a WebSocket upgrade, a status request, or 400.
handle_wsclient ==
    /\ api_service = "websocket"
    /\ api_response = <<>>
    /\ \E connected \in BOOLEAN :
        IF api_request.method = "GET" /\ get_websocket_version(api_request) = 13
        THEN api_response' = Response(101, "Switching Protocols") /\ api_action' = "proxy_websocket"
        ELSE IF get_websocket_version(api_request) = 0
             THEN LET answer == get_api_response(get_request_uri(api_request), api_windows, connected)
                  IN  api_response' = answer.response /\ api_action' = answer.action
             ELSE api_response' = Response(400, "Websocket/HTTP Versions Unsupported") /\ api_action' = "none"
    /\ UNCHANGED <<paired_servers, api_windows, api_service, api_request>>
    /\ UNCHANGED api_rest

InitApi ==
    /\ ServerIdle
    /\ BridgeIdle
    /\ FramerIdle
    /\ HextileIdle
    /\ ZrleIdle
    /\ TranscodeIdle
    /\ BitsIdle
    /\ IpcIdle
    /\ PacketIdle
    /\ LinkIdle
    /\ EncodersIdle
    /\ LocksIdle
    /\ TasksIdle
    /\ EofIdle
    /\ paired_servers \in SUBSET ConfiguredHashes
    /\ api_windows \in BOOLEAN
    /\ api_service \in {"webapi", "websocket"}
    /\ api_request \in ApiRequests(api_service)
    /\ api_response = <<>>
    /\ api_action = "none"

NextApi == webapi_request \/ handle_wsclient

SpecApi == InitApi /\ [][NextApi]_vars

\* ------------------------------------------------------------- the daemon
\* The process ids, the addresses and the connections tried.
MaxIpcConns == 2

IpcConns == 1..MaxIpcConns

Pids == {4242, 4243}

TcpAddrs == {"127.0.0.1:51000"}

WsAddrs == {"127.0.0.1:51001"}

\* A message is its opcode and its payload split at "\r\n".  The payloads
\* tried are well formed: the first part is a pid in decimal.
HelloMsg(pid, tcp_address) == [opcode |-> "HELLO", data |-> <<pid, tcp_address>>]

IpUpdateMsg(pid, update, ws_ip) == [opcode |-> "IP_UPDATE", data |-> <<pid, update, ws_ip>>]

PingMsg == [opcode |-> "PING", data |-> <<"PING">>]

\* What the process with this pid writes before it closes the connection.
WorkerWrites(pid) ==
    {<<>>, <<PingMsg>>} \cup
    {<<HelloMsg(pid, a)>> : a \in TcpAddrs} \cup
    {<<IpUpdateMsg(pid, u, w)>> : u \in {"ws", "wss"}, w \in WsAddrs} \cup
    {<<HelloMsg(pid, a), IpUpdateMsg(pid, u, w)>> : a \in TcpAddrs, u \in {"ws", "wss"}, w \in WsAddrs}

SessionsWith(sessions, pid, instance) == [p \in (DOMAIN sessions) \cup {pid} |-> IF p = pid THEN instance ELSE sessions[p]]

SessionsWithout(sessions, pid) == [p \in (DOMAIN sessions) \ {pid} |-> sessions[p]]

\* process_hello: the address is stored in the entry of the pid, if there
\* is one.
process_hello(sessions, data) ==
    IF data[1] \in DOMAIN sessions
    THEN SessionsWith(sessions, data[1], [sessions[data[1]] EXCEPT !.ip = data[2]])
    ELSE sessions

\* process_ipupdate: the WebSocket address and whether it is secure.
process_ipupdate(sessions, data) ==
    IF data[1] \in DOMAIN sessions /\ data[2] \in {"ws", "wss"}
    THEN SessionsWith(sessions, data[1], [sessions[data[1]] EXCEPT !.ws = data[3], !.ws_secure = (data[2] = "wss")])
    ELSE sessions

\* process_disconnect removes the entry of the pid.
process_disconnect(sessions, data) == SessionsWithout(sessions, data[1])

\* event::fire with the listeners that create registered.
fire(event, data, sessions) ==
    CASE event = "HELLO" -> process_hello(sessions, data)
      [] event = "IP_UPDATE" -> process_ipupdate(sessions, data)
      [] event = "DISCONNECT" -> process_disconnect(sessions, data)
      [] OTHER -> sessions

\* start and event_handler (WTS_SESSION_LOGON): spawn_spifyrfb_protcol starts
\* the worker; the process runs from here on.
spawn_spifyrfb_protcol(pid) ==
    /\ pid \notin spawned
    /\ pid \notin DOMAIN WTS_SESSIONS
    /\ \A k \in IpcConns : ipc_pc[k] = "Free" \/ ipc_owner[k] # pid
    /\ spawned' = spawned \cup {pid}
    /\ UNCHANGED <<WTS_SESSIONS, ipc_pc, ipc_owner, ipc_unread, client_pid, PENDING_WRITES, ipc_handled, ipc_fired>>
    /\ UNCHANGED ipc_rest

\* create_wts_session, called with what spawn_spifyrfb_protcol returned.
create_wts_session(pid) ==
    /\ pid \in spawned
    /\ spawned' = spawned \ {pid}
    /\ WTS_SESSIONS' = SessionsWith(WTS_SESSIONS, pid, [ip |-> "", ws |-> "", ws_secure |-> FALSE])
    /\ UNCHANGED <<ipc_pc, ipc_owner, ipc_unread, client_pid, PENDING_WRITES, ipc_handled, ipc_fired>>
    /\ UNCHANGED ipc_rest

\* ipc_server::create accepts a connection and spawns handle_client, which
\* runs to its loop.  The peer is a process of this machine: a worker that was
\* spawned, or another process.
ipc_accept(k, pid) ==
    /\ ipc_pc[k] = "Free"
    /\ \A j \in IpcConns : j < k => ipc_pc[j] # "Free"
    /\ \A j \in IpcConns : ipc_pc[j] = "Free" \/ ipc_owner[j] # pid
    /\ \E writes \in WorkerWrites(pid) :
        ipc_unread' = [ipc_unread EXCEPT ![k] = writes]
    /\ ipc_pc' = [ipc_pc EXCEPT ![k] = "Open"]
    /\ ipc_owner' = [ipc_owner EXCEPT ![k] = pid]
    /\ client_pid' = [client_pid EXCEPT ![k] = <<>>]
    /\ PENDING_WRITES' = [PENDING_WRITES EXCEPT ![k] = <<>>]
    /\ UNCHANGED <<WTS_SESSIONS, spawned, ipc_handled, ipc_fired>>
    /\ UNCHANGED ipc_rest

\* handle_client, a turn of the loop that reads a message.
handle_client_message(k) ==
    /\ ipc_pc[k] = "Open"
    /\ ipc_unread[k] # <<>>
    /\ LET message == Head(ipc_unread[k])
       IN  /\ ipc_unread' = [ipc_unread EXCEPT ![k] = Tail(@)]
           /\ ipc_handled' = [ipc_handled EXCEPT ![k] = Append(@, message)]
           /\ CASE message.opcode = "HELLO" ->
                    /\ client_pid' = [client_pid EXCEPT ![k] = <<message.data[1]>>]
                    /\ ipc_fired' = Append(ipc_fired, <<"HELLO", message.data>>)
                    /\ WTS_SESSIONS' = fire("HELLO", message.data, WTS_SESSIONS)
                    /\ UNCHANGED PENDING_WRITES
                [] message.opcode = "PING" ->
                    /\ PENDING_WRITES' = [PENDING_WRITES EXCEPT ![k] = Append(@, "PONG")]
                    /\ UNCHANGED <<client_pid, ipc_fired, WTS_SESSIONS>>
                [] message.opcode = "IP_UPDATE" ->
                    /\ PENDING_WRITES' = [PENDING_WRITES EXCEPT ![k] = Append(@, "PING")]
                    /\ UNCHANGED <<client_pid, ipc_fired, WTS_SESSIONS>>
    /\ UNCHANGED <<spawned, ipc_pc, ipc_owner>>
    /\ UNCHANGED ipc_rest

\* handle_client, a turn whose read meets the end of the stream: DISCONNECT
\* is fired with client_pid.unwrap(), which panics on None.
handle_client_eof(k) ==
    /\ ipc_pc[k] = "Open"
    /\ ipc_unread[k] = <<>>
    /\ IF client_pid[k] = <<>>
       THEN /\ ipc_pc' = [ipc_pc EXCEPT ![k] = "Panicked"]
            /\ UNCHANGED <<ipc_fired, WTS_SESSIONS>>
       ELSE /\ ipc_pc' = [ipc_pc EXCEPT ![k] = "Ended"]
            /\ ipc_fired' = Append(ipc_fired, <<"DISCONNECT", client_pid[k]>>)
            /\ WTS_SESSIONS' = fire("DISCONNECT", client_pid[k], WTS_SESSIONS)
    /\ UNCHANGED <<spawned, ipc_owner, ipc_unread, client_pid, PENDING_WRITES, ipc_handled>>
    /\ UNCHANGED ipc_rest

\* handle_client, a turn whose read times out: the pending writes are
\* written and cleared.
handle_client_write(k) ==
    /\ ipc_pc[k] = "Open"
    /\ PENDING_WRITES[k] # <<>>
    /\ PENDING_WRITES' = [PENDING_WRITES EXCEPT ![k] = <<>>]
    /\ UNCHANGED <<WTS_SESSIONS, spawned, ipc_pc, ipc_owner, ipc_unread, client_pid, ipc_handled, ipc_fired>>
    /\ UNCHANGED ipc_rest

InitDaemon ==
    /\ ServerIdle
    /\ BridgeIdle
    /\ FramerIdle
    /\ HextileIdle
    /\ ZrleIdle
    /\ TranscodeIdle
    /\ BitsIdle
    /\ ApiIdle
    /\ PacketIdle
    /\ LinkIdle
    /\ EncodersIdle
    /\ LocksIdle
    /\ TasksIdle
    /\ EofIdle
    /\ WTS_SESSIONS = [pid \in {} |-> <<>>]
    /\ spawned = {}
    /\ ipc_pc = [k \in IpcConns |-> "Free"]
    /\ ipc_owner = [k \in IpcConns |-> 0]
    /\ ipc_unread = [k \in IpcConns |-> <<>>]
    /\ client_pid = [k \in IpcConns |-> <<>>]
    /\ PENDING_WRITES = [k \in IpcConns |-> <<>>]
    /\ ipc_handled = [k \in IpcConns |-> <<>>]
    /\ ipc_fired = <<>>

NextDaemon ==
    \/ \E pid \in Pids : spawn_spifyrfb_protcol(pid)
    \/ \E pid \in Pids : create_wts_session(pid)
    \/ \E k \in IpcConns, pid \in Pids : ipc_accept(k, pid)
    \/ \E k \in IpcConns : handle_client_message(k)
    \/ \E k \in IpcConns : handle_client_eof(k)
    \/ \E k \in IpcConns : handle_client_write(k)

SpecDaemon == InitDaemon /\ [][NextDaemon]_vars

\* ------------------------------------------------------------ IPC packets
IpcEvent_HELLO == 0
IpcEvent_PING == 1
IpcEvent_PONG == 2
IpcEvent_IP_UPDATE == 3
IpcEvent_DISCONNECT == 4

\* construct_payload with the length written in full.
construct_payload_whole_length(event, payload) == <<event, Len(payload)>> \o payload

\* construct_payload of ipc_server and of ipc_client: the opcode, payload.len()
\* as u8, the payload.
construct_payload(event, payload) == <<event, Len(payload) % 256>> \o payload

\* "Received IP Update: ", "PONG" and "PING" in bytes.
ReceivedIpUpdate == <<82, 101, 99, 101, 105, 118, 101, 100, 32, 73, 80, 32, 85, 112, 100, 97, 116, 101, 58, 32>>

PongText == <<80, 79, 78, 71>>

PingText == <<80, 73, 78, 71>>

\* A text of n bytes, of digits.
MaxPayload == 255

Digits(n) == SubSeq([i \in 1..MaxPayload |-> 48 + (i % 10)], 1, n)

\* The payloads the code hands to construct_payload: "PONG" and "PING";
\* the worker's pid, "ws" or "wss" and socket addresses, of some length below
\* 80; and the daemon's acknowledgement, "Received IP Update: " and then the
\* payload it read, which has as many bytes as its length byte said.
MaxAnnounced == 79

ConstructedPackets ==
    {<<IpcEvent_PONG, PongText>>, <<IpcEvent_PING, PingText>>} \cup
    {<<event, Digits(n)>> : event \in {IpcEvent_HELLO, IpcEvent_IP_UPDATE}, n \in 0..MaxAnnounced} \cup
    {<<IpcEvent_PING, ReceivedIpUpdate \o Digits(n)>> : n \in 0..MaxPayload}

\* The frames the loop of handle_client and of connect reads from the bytes:
\* two bytes, then as many bytes as the second says; a frame that is not yet
\* whole is waited for.
RECURSIVE ReadPackets(_)
ReadPackets(bytes) ==
    IF Len(bytes) < 2 \/ Len(bytes) < 2 + bytes[2] THEN <<>>
    ELSE <<[opcode |-> bytes[1], payload |-> SubSeq(bytes, 3, 2 + bytes[2])]>> \o ReadPackets(SubSeq(bytes, 3 + bytes[2], Len(bytes)))

InitPackets ==
    /\ ServerIdle
    /\ BridgeIdle
    /\ FramerIdle
    /\ HextileIdle
    /\ ZrleIdle
    /\ TranscodeIdle
    /\ BitsIdle
    /\ ApiIdle
    /\ IpcIdle
    /\ LinkIdle
    /\ EncodersIdle
    /\ LocksIdle
    /\ TasksIdle
    /\ EofIdle
    /\ \E packet \in ConstructedPackets : cp_opcode = packet[1] /\ cp_payload = packet[2]
    /\ cp_written = <<>>
    /\ cp_frames = <<>>

\* The packet is constructed and written, and a PONG after it.
write_packets ==
    /\ cp_written = <<>>
    /\ cp_written' = construct_payload(cp_opcode, cp_payload) \o construct_payload(IpcEvent_PONG, PongText)
    /\ UNCHANGED <<cp_opcode, cp_payload, cp_frames>>
    /\ UNCHANGED packet_rest

\* The peer reads what was written.
read_packets ==
    /\ cp_written # <<>>
    /\ cp_frames = <<>>
    /\ cp_frames' = ReadPackets(cp_written)
    /\ UNCHANGED <<cp_opcode, cp_payload, cp_written>>
    /\ UNCHANGED packet_rest

NextPackets == write_packets \/ read_packets

SpecPackets == InitPackets /\ [][NextPackets]_vars

\* --------------------------------------------------------------- IPC link
\* One worker and the daemon's task for its connection.  Each side reads a
\* two-byte header under a timeout, then the payload without one; when the
\* header read times out the side writes what is pending.
MaxPings == 1

Sides == {"worker", "daemon"}

Peer(side) == IF side = "worker" THEN "daemon" ELSE "worker"

\* "4242\r\n127.0.0.1:51000" and "4242\r\nwss\r\n127.0.0.1:51001".
HelloText == <<52, 50, 52, 50, 13, 10, 49, 50, 55, 46, 48, 46, 48, 46, 49, 58, 53, 49, 48, 48, 48>>

IpUpdateText == <<52, 50, 52, 50, 13, 10, 119, 115, 115, 13, 10, 49, 50, 55, 46, 48, 46, 48, 46, 49, 58, 53, 49, 48, 48, 49>>

\* The lock of the worker's PENDING_WRITES is free: the write branch of
\* connect holds it from its snapshot to its clearing.
lock_not_waited_for(at) == TRUE

pending_writes_lock_free(at) == at # "Flush"

\* What connect queues for a frame read with this opcode.
client_reply(event, payload) ==
    IF event = IpcEvent_PING THEN <<construct_payload(IpcEvent_PONG, PongText)>> ELSE <<>>

\* A loop that answers every frame with a PONG.
server_reply_to_all(event, payload) == <<construct_payload(IpcEvent_PONG, PongText)>>

\* What handle_client queues for a frame read with this opcode.
server_reply(event, payload) ==
    CASE event = IpcEvent_PING -> <<construct_payload(IpcEvent_PONG, PongText)>>
      [] event = IpcEvent_IP_UPDATE -> <<construct_payload(IpcEvent_PING, ReceivedIpUpdate \o payload)>>
      [] OTHER -> <<>>

Running(side) == link_pc[side] \in {"Header", "Payload", "Flush"}

WorkerAlive == link_pc["worker"] # "Exited"

\* The end of the stream is what the side's read meets.
AtEof(side) == link_closed[side] /\ link_wire[side] = <<>>

Histories == <<link_sent, link_taken, link_read, link_pushed, link_written>>

InitLink ==
    /\ ServerIdle
    /\ BridgeIdle
    /\ FramerIdle
    /\ HextileIdle
    /\ ZrleIdle
    /\ TranscodeIdle
    /\ BitsIdle
    /\ ApiIdle
    /\ IpcIdle
    /\ PacketIdle
    /\ EncodersIdle
    /\ LocksIdle
    /\ TasksIdle
    /\ EofIdle
    /\ link_pc = [side \in Sides |-> "Connect"]
    /\ link_header = [side \in Sides |-> <<>>]
    /\ link_pending = [side \in Sides |-> <<>>]
    /\ link_snapshot = [side \in Sides |-> <<>>]
    /\ link_wire = [side \in Sides |-> <<>>]
    /\ link_rx = [side \in Sides |-> <<>>]
    /\ link_closed = [side \in Sides |-> FALSE]
    /\ link_sent = [side \in Sides |-> <<>>]
    /\ link_taken = [side \in Sides |-> <<>>]
    /\ link_read = [side \in Sides |-> <<>>]
    /\ link_pushed = [side \in Sides |-> <<>>]
    /\ link_written = [side \in Sides |-> <<>>]
    /\ eof_observed = FALSE
    /\ create_pc = "Bound"
    /\ websocket_pc = "None"
    /\ pings = 0

\* server::create of the worker: send_hello, awaited before anything else.
send_hello ==
    /\ WorkerAlive
    /\ create_pc = "Bound"
    /\ pending_writes_lock_free(link_pc["worker"])
    /\ create_pc' = "HelloSent"
    /\ link_pending' = [link_pending EXCEPT !["worker"] = Append(@, construct_payload(IpcEvent_HELLO, HelloText))]
    /\ link_pushed' = [link_pushed EXCEPT !["worker"] = Append(@, construct_payload(IpcEvent_HELLO, HelloText))]
    /\ UNCHANGED <<link_pc, link_header, link_snapshot, link_wire, link_rx, link_closed, link_sent, link_taken, link_read, link_written, eof_observed, websocket_pc, pings>>
    /\ UNCHANGED link_rest

\* server::create spawns websocket::create, which binds its listener.
spawn_websocket ==
    /\ WorkerAlive
    /\ create_pc = "HelloSent"
    /\ create_pc' = "Spawned"
    /\ websocket_pc' = "Bound"
    /\ UNCHANGED <<link_pc, link_header, link_pending, link_snapshot, link_wire, link_rx, link_closed, Histories, eof_observed, pings>>
    /\ UNCHANGED link_rest

\* websocket::create: send_ip_update.
send_ip_update ==
    /\ WorkerAlive
    /\ websocket_pc = "Bound"
    /\ pending_writes_lock_free(link_pc["worker"])
    /\ websocket_pc' = "IpUpdateSent"
    /\ link_pending' = [link_pending EXCEPT !["worker"] = Append(@, construct_payload(IpcEvent_IP_UPDATE, IpUpdateText))]
    /\ link_pushed' = [link_pushed EXCEPT !["worker"] = Append(@, construct_payload(IpcEvent_IP_UPDATE, IpUpdateText))]
    /\ UNCHANGED <<link_pc, link_header, link_snapshot, link_wire, link_rx, link_closed, link_sent, link_taken, link_read, link_written, eof_observed, create_pc, pings>>
    /\ UNCHANGED link_rest

\* ipc_client::connect reaches the daemon, whose create accepts and spawns
\* handle_client; both enter their loops.
ipc_connect ==
    /\ link_pc = [side \in Sides |-> "Connect"]
    /\ link_pc' = [side \in Sides |-> "Header"]
    /\ UNCHANGED <<link_header, link_pending, link_snapshot, link_wire, link_rx, link_closed, Histories, eof_observed, create_pc, websocket_pc, pings>>
    /\ UNCHANGED link_rest

\* ipc_client::connect does not reach the daemon: the task returns the
\* error.
ipc_connect_failed ==
    /\ link_pc = [side \in Sides |-> "Connect"]
    /\ link_pc' = [link_pc EXCEPT !["worker"] = "Failed", !["daemon"] = "Stopped"]
    /\ UNCHANGED <<link_header, link_pending, link_snapshot, link_wire, link_rx, link_closed, Histories, eof_observed, create_pc, websocket_pc, pings>>
    /\ UNCHANGED link_rest

\* Bytes written to the side arrive: all of them, or the first one alone.
link_deliver(side) ==
    /\ Running(side)
    /\ link_wire[side] # <<>>
    /\ \E n \in {1, Len(link_wire[side])} :
        /\ n < Len(link_wire[side]) => (link_rx[side] = <<>> /\ link_pc[side] = "Header")
        /\ link_rx' = [link_rx EXCEPT ![side] = @ \o SubSeq(link_wire[side], 1, n)]
        /\ link_wire' = [link_wire EXCEPT ![side] = SubSeq(@, n + 1, Len(@))]
    /\ UNCHANGED <<link_pc, link_header, link_pending, link_snapshot, link_closed, Histories, eof_observed, create_pc, websocket_pc, pings>>
    /\ UNCHANGED link_rest

\* read_exact of the header completes within the timeout.
read_header(side) ==
    /\ link_pc[side] = "Header"
    /\ Len(link_rx[side]) >= 2
    /\ link_header' = [link_header EXCEPT ![side] = SubSeq(link_rx[side], 1, 2)]
    /\ link_rx' = [link_rx EXCEPT ![side] = SubSeq(@, 3, Len(@))]
    /\ link_taken' = [link_taken EXCEPT ![side] = @ \o SubSeq(link_rx[side], 1, 2)]
    /\ link_pc' = [link_pc EXCEPT ![side] = "Payload"]
    /\ UNCHANGED <<link_pending, link_snapshot, link_wire, link_closed, link_sent, link_read, link_pushed, link_written, eof_observed, create_pc, websocket_pc, pings>>
    /\ UNCHANGED link_rest

\* The timeout fires before read_exact has its two bytes: the future is
\* dropped with what it had read, and the write branch is entered.  The worker
\* takes the lock of its queue and copies the queue; the daemon copies the
\* endpoint's queue and holds no lock.
read_header_timeout(side) ==
    /\ link_pc[side] = "Header"
    /\ Len(link_rx[side]) < 2
    /\ ~AtEof(side)
    /\ link_rx' = [link_rx EXCEPT ![side] = <<>>]
    /\ link_pc' = [link_pc EXCEPT ![side] = "Flush"]
    /\ link_snapshot' = [link_snapshot EXCEPT ![side] = link_pending[side]]
    /\ UNCHANGED <<link_header, link_pending, link_wire, link_closed, Histories, eof_observed, create_pc, websocket_pc, pings>>
    /\ UNCHANGED link_rest

\* The write branch: the packets are written in order and the queue is
\* emptied; the worker still holds the lock of its queue.
write_pending(side) ==
    /\ link_pc[side] = "Flush"
    /\ LET packets == link_snapshot[side]
       IN  /\ link_wire' = [link_wire EXCEPT ![Peer(side)] = IF Running(Peer(side)) THEN @ \o Flatten(packets) ELSE @]
           /\ link_sent' = [link_sent EXCEPT ![Peer(side)] = @ \o Flatten(packets)]
           /\ link_written' = [link_written EXCEPT ![side] = @ \o packets]
    /\ link_pending' = [link_pending EXCEPT ![side] = <<>>]
    /\ link_snapshot' = [link_snapshot EXCEPT ![side] = <<>>]
    /\ link_pc' = [link_pc EXCEPT ![side] = "Header"]
    /\ UNCHANGED <<link_header, link_rx, link_closed, link_taken, link_read, link_pushed, eof_observed, create_pc, websocket_pc, pings>>
    /\ UNCHANGED link_rest

\* The write branch when the peer has closed: write_all may fail, and its
\* unwrap panics.
write_pending_fails(side) ==
    /\ link_pc[side] = "Flush"
    /\ link_closed[side]
    /\ link_snapshot[side] # <<>>
    /\ link_pc' = [link_pc EXCEPT ![side] = "Panicked"]
    /\ link_closed' = [link_closed EXCEPT ![Peer(side)] = TRUE]
    /\ link_snapshot' = [link_snapshot EXCEPT ![side] = <<>>]
    /\ UNCHANGED <<link_header, link_pending, link_wire, link_rx, Histories, eof_observed, create_pc, websocket_pc, pings>>
    /\ UNCHANGED link_rest

\* read_exact of the payload completes, and the opcode is matched.
read_payload(side) ==
    /\ link_pc[side] = "Payload"
    /\ Len(link_rx[side]) >= link_header[side][2]
    /\ LET length == link_header[side][2]
           payload == SubSeq(link_rx[side], 1, length)
           reply == IF side = "worker" THEN client_reply(link_header[side][1], payload) ELSE server_reply(link_header[side][1], payload)
       IN  /\ link_rx' = [link_rx EXCEPT ![side] = SubSeq(@, length + 1, Len(@))]
           /\ link_taken' = [link_taken EXCEPT ![side] = @ \o payload]
           /\ link_read' = [link_read EXCEPT ![side] = Append(@, link_header[side][1])]
           /\ link_pending' = [link_pending EXCEPT ![side] = @ \o reply]
           /\ link_pushed' = [link_pushed EXCEPT ![side] = @ \o reply]
    /\ link_header' = [link_header EXCEPT ![side] = <<>>]
    /\ link_pc' = [link_pc EXCEPT ![side] = "Header"]
    /\ UNCHANGED <<link_snapshot, link_wire, link_closed, link_sent, link_written, eof_observed, create_pc, websocket_pc, pings>>
    /\ UNCHANGED link_rest

\* read_exact of the header meets the end of the stream: the worker calls
\* process::exit; handle_client fires DISCONNECT with client_pid.unwrap(),
\* which panics if no HELLO was read, and breaks.
read_header_eof(side) ==
    /\ link_pc[side] = "Header"
    /\ Len(link_rx[side]) < 2
    /\ AtEof(side)
    /\ link_pc' = [link_pc EXCEPT ![side] = IF side = "worker" THEN "Exited"
                                           ELSE IF \E i \in 1..Len(link_read[side]) : link_read[side][i] = IpcEvent_HELLO THEN "Ended" ELSE "Panicked"]
    /\ link_closed' = [link_closed EXCEPT ![Peer(side)] = TRUE]
    /\ eof_observed' = (eof_observed \/ side = "worker")
    /\ UNCHANGED <<link_header, link_pending, link_snapshot, link_wire, link_rx, Histories, create_pc, websocket_pc, pings>>
    /\ UNCHANGED link_rest

\* read_exact of the payload meets the end of the stream, and its unwrap
\* panics: the task ends.
read_payload_eof(side) ==
    /\ link_pc[side] = "Payload"
    /\ Len(link_rx[side]) < link_header[side][2]
    /\ AtEof(side)
    /\ link_pc' = [link_pc EXCEPT ![side] = "Panicked"]
    /\ link_closed' = [link_closed EXCEPT ![Peer(side)] = TRUE]
    /\ eof_observed' = (eof_observed \/ side = "worker")
    /\ UNCHANGED <<link_header, link_pending, link_snapshot, link_wire, link_rx, Histories, create_pc, websocket_pc, pings>>
    /\ UNCHANGED link_rest

\* send_ping for the endpoint, called by another task of the daemon.
send_ping ==
    /\ link_pc["daemon"] \notin {"Connect", "Stopped"}
    /\ pings < MaxPings
    /\ pings' = pings + 1
    /\ link_pending' = [link_pending EXCEPT !["daemon"] = Append(@, construct_payload(IpcEvent_PING, PingText))]
    /\ link_pushed' = [link_pushed EXCEPT !["daemon"] = Append(@, construct_payload(IpcEvent_PING, PingText))]
    /\ UNCHANGED <<link_pc, link_header, link_snapshot, link_wire, link_rx, link_closed, link_sent, link_taken, link_read, link_written, eof_observed, create_pc, websocket_pc>>
    /\ UNCHANGED link_rest

\* The daemon stops: its sockets are closed.
daemon_stops ==
    /\ Running("daemon")
    /\ link_pc' = [link_pc EXCEPT !["daemon"] = "Stopped"]
    /\ link_closed' = [link_closed EXCEPT !["worker"] = TRUE]
    /\ link_snapshot' = [link_snapshot EXCEPT !["daemon"] = <<>>]
    /\ UNCHANGED <<link_header, link_pending, link_wire, link_rx, Histories, eof_observed, create_pc, websocket_pc, pings>>
    /\ UNCHANGED link_rest

NextLink ==
    \/ send_hello
    \/ spawn_websocket
    \/ send_ip_update
    \/ ipc_connect
    \/ ipc_connect_failed
    \/ send_ping
    \/ daemon_stops
    \/ \E side \in Sides : link_deliver(side)
    \/ \E side \in Sides : read_header(side)
    \/ \E side \in Sides : read_header_timeout(side)
    \/ \E side \in Sides : write_pending(side)
    \/ \E side \in Sides : write_pending_fails(side)
    \/ \E side \in Sides : read_payload(side)
    \/ \E side \in Sides : read_header_eof(side)
    \/ \E side \in Sides : read_payload_eof(side)

SpecLink == InitLink /\ [][NextLink]_vars

\* ------------------------------------------------------------ properties
\* What the server has written to c, by kind.
Wrote(c, t) == \E k \in 1..Len(tx[c]) : tx[c][k].t = t

\* What the handshake has read from c, by kind.
HasRead(c, t) == \E k \in 1..Len(hs[c]) : hs[c][k].t = t

ValueRead(c, t) == hs[c][CHOOSE k \in 1..Len(hs[c]) : hs[c][k].t = t].v

\* c has been let past the security handshake.
Admitted(c) == pc[c] \in {"AwaitClientInit", "Serving"} \/ Wrote(c, "ServerInit")

\* c answered the challenge with the challenge encrypted under the key.
Authenticated(c) ==
    /\ HasRead(c, "Response")
    /\ decrypt_blocks(vnckey_le(auth[1]), ValueRead(c, "Response")) = challenge[c]

\* The dispatch numbered i of c took the opcode of a message the viewer sent.
Aligned(c, i) == handled[c][i].offset \in starts[c]

\* The byte the loop takes as its next opcode begins a message of the viewer.
NextOpcodeIsMessageStart(c) == Len(rx[c]) > 0 => consumed[c] \in starts[c]

\* The indices in tx[c] of the updates written by the dispatch numbered i.
UpdatesFor(c, i) ==
    {k \in 1..Len(tx[c]) : tx[c][k].t = "FramebufferUpdate" /\ tx[c][k].v.cause = i}

\* C1: with a VNC key configured, no connection gets to ClientInit,
\* ServerInit or Serving unless the 16-byte response it sent decrypts to
\* the challenge it was issued; selecting type 1 (None) does not admit it.
C1_AdmittedOnlyAfterResponse ==
    \A c \in Conns : (auth # <<>> /\ Admitted(c)) => Authenticated(c)

\* C2: every FramebufferUpdateRequest the loop reads is answered by exactly
\* one FramebufferUpdate for the requested rectangle, and the updates leave
\* in the order the requests were read: none dropped, none coalesced.
C2_OneUpdatePerRequest ==
    \A c \in Conns :
        LET requests == {i \in 1..Len(handled[c]) :
                            handled[c][i].opcode = FRAME_BUFFER_UPDATE_REQUEST}
        IN  /\ \A i \in requests :
                /\ Cardinality(UpdatesFor(c, i)) = 1
                /\ \A k \in UpdatesFor(c, i) :
                    LET buf == handled[c][i].buffer
                        rect == tx[c][k].v.update.frame_buffer[1]
                    IN  /\ tx[c][k].v.update.number_of_rectangles = 1
                        /\ rect.x_position = BeU16(buf[2], buf[3])
                        /\ rect.y_position = BeU16(buf[4], buf[5])
                        /\ rect.width = BeU16(buf[6], buf[7])
                        /\ rect.height = BeU16(buf[8], buf[9])
            /\ \A i, j \in requests : \A k \in UpdatesFor(c, i), l \in UpdatesFor(c, j) :
                i < j => k < l

\* C3: the deflate context of a session is set up exactly once; no sequence
\* of encode calls, calls with empty input included, sets it up again.
C3_StreamInitializedOnce ==
    \A id \in DOMAIN LIVE_ZSTREAMS : LIVE_ZSTREAMS[id].inits <= 1

\* C4: after a SetEncodings message with count n the loop has consumed the
\* 3 + 4n bytes after the opcode, so the byte it takes as the next opcode is
\* the first byte of the viewer's next message, for every n >= 0.
C4_SetEncodingsConsumed ==
    \A c \in Conns :
        (/\ pc[c] = "Serving"
         /\ handled[c] # <<>>
         /\ handled[c][Len(handled[c])].opcode = SET_ENCODINGS
         /\ Aligned(c, Len(handled[c])))
        => NextOpcodeIsMessageStart(c)

\* C5: a ClientCutText message is accepted: its 3 padding bytes, its u32
\* length and its text are consumed, so no byte of it is taken as an opcode.
C5_CutTextConsumed ==
    \A c \in Conns :
        (/\ pc[c] = "Serving"
         /\ handled[c] # <<>>
         /\ handled[c][Len(handled[c])].opcode = CLIENT_CUT_TEXT
         /\ Aligned(c, Len(handled[c])))
        => NextOpcodeIsMessageStart(c)

\* C6: with no authentication configured the server writes, in this order
\* and with nothing between: the 12-byte version, the advertisement of one
\* security type, 1, SecurityResult 0, and one ServerInit; only after that
\* does it read Serving opcodes.
C6_NoAuthHandshakeOrder ==
    \A c \in Conns :
        (auth = <<>> /\ (pc[c] = "Serving" \/ handled[c] # <<>>)) =>
            /\ Len(tx[c]) >= 4
            /\ tx[c][1].t = "ProtocolVersion" /\ tx[c][1].v = protocol_version
            /\ Len(tx[c][1].v) = 12
            /\ tx[c][2].t = "SecurityTypes"
            /\ tx[c][2].v = [length |-> 1, types |-> <<1>>]
            /\ tx[c][3].t = "SecurityResult" /\ tx[c][3].v = 0
            /\ tx[c][4].t = "ServerInit"
            /\ Len(write_serverinit_message(tx[c][4].v)) = 24 + Len(tx[c][4].v.name_string)
            /\ \A k \in 5..Len(tx[c]) : tx[c][k].t = "FramebufferUpdate"

\* A viewer of a server without authentication has had a message dispatched.
C6_NoAuthViewerServed ==
    \E c \in Conns : auth = <<>> /\ handled[c] # <<>> /\ Wrote(c, "FramebufferUpdate")

\* C7: a viewer whose 12 bytes are not the server's version gets a u32
\* reason length and the reason, the connection ends, and the server sends
\* it no security advertisement, SecurityResult or ServerInit.
C7_VersionMismatchRefused ==
    \A c \in Conns :
        (HasRead(c, "Version") /\ ValueRead(c, "Version") # protocol_version) =>
            /\ pc[c] = "Closed"
            /\ Len(tx[c]) = 3
            /\ tx[c][1].t = "ProtocolVersion"
            /\ tx[c][2].t = "ReasonLength" /\ tx[c][2].v = ReasonLength(tx[c][3].v)
            /\ tx[c][3].t = "Reason" /\ tx[c][3].v = "Version not Supported"

\* A viewer has answered with another version and been refused.
C7_OtherVersionAnswered ==
    \E c \in Conns :
        /\ HasRead(c, "Version") /\ ValueRead(c, "Version") = OtherVersion
        /\ Wrote(c, "Reason")

\* C8: with a VNC key configured, a viewer that selects type 2 and sends a
\* response that does not decrypt to the challenge gets SecurityResult 1, a
\* u32 reason length and the reason; the connection ends without ServerInit
\* or FramebufferUpdate.
C8_WrongResponseRefused ==
    \A c \in Conns :
        (auth # <<>> /\ HasRead(c, "Response") /\ ~Authenticated(c)) =>
            /\ pc[c] = "Closed"
            /\ Len(tx[c]) = 6
            /\ tx[c][1].t = "ProtocolVersion"
            /\ tx[c][2].t = "SecurityTypes"
            /\ tx[c][3].t = "Challenge"
            /\ tx[c][4].t = "SecurityResult" /\ tx[c][4].v = 1
            /\ tx[c][5].t = "ReasonLength" /\ tx[c][5].v = ReasonLength(tx[c][6].v)
            /\ tx[c][6].t = "Reason" /\ tx[c][6].v = "Password is Incorrect"

\* A viewer has sent a response whose first block alone is right.
C8_HalfRightResponseSent ==
    \E c \in Conns :
        /\ auth # <<>> /\ HasRead(c, "Response") /\ ~Authenticated(c)
        /\ decrypt_blocks(vnckey_le(auth[1]), ValueRead(c, "Response"))[1] = challenge[c][1]
        /\ Wrote(c, "Reason")

\* C9: a ClientInit byte of 0 is accepted exactly as a nonzero one: the
\* server goes on to send ServerInit and enters Serving.
C9_AnyClientInitAccepted ==
    \A c \in Conns : HasRead(c, "ClientInit") => Wrote(c, "ServerInit")

\* C10: on SetPixelFormat the session's format becomes the 16-byte format
\* of the message, exactly one FramebufferUpdate covering the whole
\* framebuffer follows, and it and the later updates use the new format.
C10_SetPixelFormatApplied ==
    \A c \in Conns : \A i \in 1..Len(handled[c]) :
        (handled[c][i].opcode = SET_PIXEL_FORMAT /\ Aligned(c, i)) =>
            LET format == ParsePixelFormat(SubSeq(handled[c][i].buffer, 4, 19))
                later == {j \in i..Len(handled[c]) :
                            \A m \in (i + 1)..j : handled[c][m].opcode # SET_PIXEL_FORMAT}
            IN  /\ Cardinality(UpdatesFor(c, i)) = 1
                /\ \A k \in UpdatesFor(c, i) :
                    LET rect == tx[c][k].v.update.frame_buffer[1]
                    IN  /\ rect.x_position = 0 /\ rect.y_position = 0
                        /\ rect.width = ScreenWidth /\ rect.height = ScreenHeight
                /\ \A j \in later : \A k \in UpdatesFor(c, j) : tx[c][k].v.pixelformat = format
                /\ Len(handled[c]) \in later => pixel_format[c] = format

\* The offset at which the last dispatch of c ended.
DispatchedEnd(c) ==
    IF handled[c] = <<>> THEN 0
    ELSE handled[c][Len(handled[c])].offset + 1 + Len(handled[c][Len(handled[c])].buffer)

\* The peer of c closed a connection that had reached Serving: at an opcode
\* boundary, or with a payload cut short.
PeerClosedServing(c) ==
    /\ zstream_id[c] # 0
    /\ \/ pc[c] = "Closed"
       \/ pc[c] = "Panicked" /\ consumed[c] > DispatchedEnd(c)

\* C11: whenever a connection that reached Serving ends because its peer
\* closed, at an opcode boundary or in the middle of a payload, the session's
\* stream id is gone from the registry.
C11_StreamRemovedOnClose ==
    \A c \in Conns : PeerClosedServing(c) => zstream_id[c] \notin DOMAIN LIVE_ZSTREAMS

\* The update written at tx[c][k] comes from a deflate call that failed: the
\* server asks for ZRLE only, and a RAW rectangle is deflate's fallback.
DeflateFailedAt(c, k) ==
    /\ tx[c][k].t = "FramebufferUpdate"
    /\ tx[c][k].v.update.frame_buffer[1].encoding_type = RAW

\* C12: a non-OK status of deflateInit2_ or deflate is fatal to the session:
\* the connection is closed and no FramebufferUpdate is sent on it after the
\* failed call.
C12_DeflateFailureFatal ==
    \A c \in Conns : \A k \in 1..Len(tx[c]) :
        DeflateFailedAt(c, k) =>
            /\ pc[c] # "Serving"
            /\ \A j \in k..Len(tx[c]) : tx[c][j].t # "FramebufferUpdate"

\* Four bytes read as a big-endian u32.
BeU32(b) == ((b[1] * 256 + b[2]) * 256 + b[3]) * 256 + b[4]

\* The updates the server has written to c.
UpdatesWritten(c) == {k \in 1..Len(tx[c]) : tx[c][k].t = "FramebufferUpdate"}

\* The wire form of an update of one rectangle, read back: after the 4-byte
\* message header and the 12-byte rectangle header, a u32 length and as many
\* payload items if prefixed, else the payload alone.
RectangleWireForm(update, prefixed) ==
    LET wire == write_framebuffer_update_message(update)
        rect == update.frame_buffer[1]
        after_header == Drop(wire, 16)
    IN  /\ Len(wire) >= 16
        /\ BeU32(SubSeq(wire, 13, 16)) = rect.encoding_type
        /\ IF prefixed
           THEN /\ Len(after_header) >= 4
                /\ BeU32(Take(after_header, 4)) = Len(after_header) - 4
                /\ Drop(after_header, 4) = rect.encoded_pixels
           ELSE after_header = rect.encoded_pixels

\* C13: in every FramebufferUpdate on the wire the rectangle header is
\* followed by a u32 length exactly when the encoding is ZLIB (6) or ZRLE
\* (16), and the length is the number of payload bytes after it; a RAW
\* rectangle, deflate's fallback included, and a HEXTILE one have no length.
\* Checked on the updates the server writes and on rectangles of the four
\* encodings handed to the writer.
C13_LengthPrefixIffCompressed ==
    /\ \A c \in Conns : \A k \in UpdatesWritten(c) :
        LET update == tx[c][k].v.update
        IN  /\ update.number_of_rectangles = Len(update.frame_buffer)
            /\ Len(update.frame_buffer) = 1
            /\ RectangleWireForm(update, update.frame_buffer[1].encoding_type \in {ZLIB, ZRLE})
    /\ \A encoding_type \in {RAW, HEX_TILE, ZLIB, ZRLE} : \A n \in 0..MaxCutText :
        LET payload == [i \in 1..n |-> i]
            update == [message_type |-> FRAME_BUFFER_UPDATE, padding |-> 0,
                       number_of_rectangles |-> 1,
                       frame_buffer |-> <<[x_position |-> 0, y_position |-> 0,
                                           width |-> 1, height |-> 1,
                                           encoding_type |-> encoding_type,
                                           encoded_pixels |-> payload,
                                           encoded_pixels_length |-> n]>>]
        IN  RectangleWireForm(update, encoding_type \in {ZLIB, ZRLE})

\* A viewer has been sent a ZRLE rectangle and a RAW fallback rectangle.
C13_BothKindsWritten ==
    \E c \in Conns : \E k, l \in UpdatesWritten(c) :
        /\ tx[c][k].v.update.frame_buffer[1].encoding_type = ZRLE
        /\ tx[c][k].v.update.frame_buffer[1].encoded_pixels # <<>>
        /\ tx[c][l].v.update.frame_buffer[1].encoding_type = RAW

\* ---- the WebSocket bridge
\* Every frame queued for or written to the client so far.
FramesForClient == client_written \o pending_writes

Queued(frame) == \E i \in 1..Len(FramesForClient) : FramesForClient[i] = frame

Written(frame) == \E i \in 1..Len(client_written) : client_written[i] = frame

Forwarded(payload) == \E i \in 1..Len(remote_written) : remote_written[i] = payload

\* C14: when the bridge receives a client frame with MASK=0 it sends
\* Close(1008) and disconnects: the payload of that frame is not forwarded to
\* the RFB socket, and once the Close is queued the loop is left, so that no
\* later client frame is processed.
C14_UnmaskedFrameRejected ==
    /\ \A k \in 1..Len(ws_sent) : ~ws_sent[k].mask => ~Forwarded(ws_sent[k].payload)
    /\ Queued(close_not_masked) => ws_pc # "Loop"

\* The bridge returned without ever holding a remote socket.
ConnectFailed == ws_pc = "Returned" /\ ~remote_shutdown

\* C15: if the bridge cannot connect to the RFB listener, a Close frame with
\* status 1011 has been written to the client when the connection is closed.
C15_CloseWrittenOnConnectFailure == ConnectFailed => Written(close_connection_failed)

\* The bridge has read everything the client has sent.
AllRead == client_rx = <<>> /\ in_flight = <<>>

IsControl(f) == f.opcode >= CONNECTION_CLOSE

\* The fragmented messages sent in full: first frame i, last frame j.
FragmentedMessages ==
    {m \in (1..Len(ws_sent)) \X (1..Len(ws_sent)) :
        /\ m[1] < m[2]
        /\ ~ws_sent[m[1]].fin /\ ws_sent[m[1]].opcode \in {TEXT_FRAME, BINARY_FRAME}
        /\ ws_sent[m[2]].fin /\ ws_sent[m[2]].opcode = CONTINUATION_FRAME
        /\ \A k \in (m[1] + 1)..(m[2] - 1) : IsControl(ws_sent[k]) \/ (~ws_sent[k].fin /\ ws_sent[k].opcode = CONTINUATION_FRAME)}

Concatenation(m) == Flatten([k \in 1..(m[2] - m[1] + 1) |-> IF IsControl(ws_sent[m[1] + k - 1]) THEN <<>> ELSE ws_sent[m[1] + k - 1].payload])

TimesHandled(entry) == Cardinality({n \in 1..Len(ws_handled) : ws_handled[n] = entry})

\* The data messages the client has completed: whole frames and fragmented
\* messages sent in full.
MessagesSent ==
    {<<ws_sent[k].opcode, ws_sent[k].payload>> : k \in {k \in 1..Len(ws_sent) : ws_sent[k].fin /\ ws_sent[k].opcode \in {TEXT_FRAME, BINARY_FRAME}}}
        \cup {<<ws_sent[m[1]].opcode, Concatenation(m)>> : m \in FragmentedMessages}

\* C16: once the frames of a fragmented message have been read, the
\* concatenation of its fragment payloads in arrival order has been handled
\* exactly once under the opcode of its first fragment; no text or binary
\* payload other than a completed message is ever handled; and between
\* messages the accumulation buffer is empty.
C16_FragmentsHandledOnce ==
    /\ AllRead => \A m \in FragmentedMessages : TimesHandled(<<ws_sent[m[1]].opcode, Concatenation(m)>>) = 1
    /\ \A n \in 1..Len(ws_handled) : ws_handled[n][1] \in {TEXT_FRAME, BINARY_FRAME} => ws_handled[n] \in MessagesSent
    /\ (AllRead /\ ~InFragment) => fin_payload = <<>>

\* The bridge waits inside a frame for bytes the client has not sent.
WaitsInsideFrame == Len(client_rx) >= 2 /\ ~FrameReady(client_rx) /\ in_flight = <<>>

\* C17: every frame the bridge queues for the client is eventually written
\* to the client while the connection stays open, also when the client keeps
\* sending frames without pause (a client that stops in the middle of a frame
\* is left aside).
C17_QueuedEventuallyWritten == (ws_pc = "Loop" /\ pending_writes # <<>>) ~> (ws_pc # "Loop" \/ pending_writes = <<>> \/ WaitsInsideFrame)

\* ---- create_frame
\* The frame the claim describes: FIN=1, MASK=0, the opcode, the minimal
\* length encoding, the payload.
MinimalFrame(payload, ws_opcode) ==
    <<128 + ws_opcode>>
        \o (IF Len(payload) < 126 THEN <<Len(payload)>>
            ELSE IF Len(payload) <= 65535 THEN <<126>> \o U16(Len(payload))
            ELSE <<127>> \o U64(Len(payload)))
        \o payload

\* C18: create_frame with masking off emits FIN=1, MASK=0, the opcode, the
\* minimal length encoding and the payload, and the bridge's decoder applied
\* to that frame consumes it whole and recovers the same payload and opcode.
C18_FrameRoundTrip ==
    /\ websocket_frame # <<>> => websocket_frame = MinimalFrame(frame_payload, frame_opcode)
    /\ decoded # <<>> =>
        /\ decoded[1].fin_flag /\ ~decoded[1].mask_hint
        /\ decoded[1].opcode = frame_opcode
        /\ decoded[1].payload = frame_payload
        /\ decoded[1].size = Len(websocket_frame)
    /\ (websocket_frame # <<>> /\ decoded = <<>>) => FrameReady(websocket_frame)

\* A frame of 126 bytes, the first length that needs the 16-bit form, has
\* been created and decoded.
C18_BoundaryFrameDecoded == decoded # <<>> /\ Len(frame_payload) = 126

\* ---- hextile
\* Tile t of the rectangle, from the rectangle alone: its size, its pixels.
TileColumn(t) == t % h_tiles(hextile_framebuffer)

TileRow(t) == t \div h_tiles(hextile_framebuffer)

TileWidth(t) == Min(HEXTILE_WIDTH, hextile_framebuffer.width - TileColumn(t) * HEXTILE_WIDTH)

TileHeight(t) == Min(HEXTILE_HEIGHT, hextile_framebuffer.height - TileRow(t) * HEXTILE_HEIGHT)

\* The pixel at column col, row row of tile t.
TilePixel(t, col, row) ==
    LET bpp == hextile_bytes_per_pixel(hextile_framebuffer)
        at == (TileRow(t) * HEXTILE_HEIGHT + row) * hextile_framebuffer.width + TileColumn(t) * HEXTILE_WIDTH + col
    IN  SubSeq(hextile_framebuffer.raw_pixels, at * bpp + 1, (at + 1) * bpp)

\* The tile's pixels in row-major order.
TileRaw(t) ==
    LET bpp == hextile_bytes_per_pixel(hextile_framebuffer)
    IN  [j \in 1..(TileWidth(t) * TileHeight(t) * bpp) |-> TilePixel(t, ((j - 1) \div bpp) % TileWidth(t), ((j - 1) \div bpp) \div TileWidth(t))[((j - 1) % bpp) + 1]]

ByteIdentical(t) == \A col \in 0..(TileWidth(t) - 1), row \in 0..(TileHeight(t) - 1) : TilePixel(t, col, row) = TilePixel(t, 0, 0)

\* Every row equals the first row, and the first row is of one colour.
RowsAlikeAndUniform(t) ==
    /\ \A row \in 0..(TileHeight(t) - 1), col \in 0..(TileWidth(t) - 1) : TilePixel(t, col, row) = TilePixel(t, col, 0)
    /\ \A col \in 0..(TileWidth(t) - 1) : TilePixel(t, col, 0) = TilePixel(t, 0, 0)

\* The payload read back as a Hextile decoder reads it: where tile t's
\* subencoding byte stands, the bytes after it, and the background colour in
\* force before it.
RECURSIVE TileOffset(_)
TileBodyLength(t, subencoding) ==
    IF subencoding = 0 THEN 0
    ELSE IF subencoding = 2 THEN hextile_bytes_per_pixel(hextile_framebuffer)
    ELSE TileWidth(t) * TileHeight(t) * hextile_bytes_per_pixel(hextile_framebuffer)

TileOffset(t) == IF t = 0 THEN 1 ELSE TileOffset(t - 1) + 1 + TileBodyLength(t - 1, hextiles[TileOffset(t - 1)])

Subencoding(t) == hextiles[TileOffset(t)]

TileBody(t) == SubSeq(hextiles, TileOffset(t) + 1, TileOffset(t) + TileBodyLength(t, Subencoding(t)))

RECURSIVE Background(_)
Background(t) == IF t = 0 THEN <<>> ELSE IF Subencoding(t - 1) = 2 THEN TileBody(t - 1) ELSE Background(t - 1)

TilesEmitted == 0..(hextile_ctr - 1)

\* C19: a tile whose pixels are all byte-identical is emitted, whatever
\* tiles precede it, as 0 if the most recently emitted solid colour is its
\* colour and otherwise as 2 followed by its colour; never as Raw.
C19_SolidTileSubencoding ==
    \A t \in TilesEmitted :
        ByteIdentical(t) =>
            IF Background(t) = TilePixel(t, 0, 0)
            THEN Subencoding(t) = 0
            ELSE Subencoding(t) = 2 /\ TileBody(t) = TilePixel(t, 0, 0)

\* C20: a tile is emitted as solid (0 or 2) exactly if every row of it
\* equals its own first row and that row is of one colour; every other tile
\* is emitted as 1 followed by its pixels in row-major order.
C20_SolidIffUniform ==
    \A t \in TilesEmitted :
        /\ Subencoding(t) \in {0, 2} <=> RowsAlikeAndUniform(t)
        /\ Subencoding(t) \notin {0, 2} => (Subencoding(t) = 1 /\ TileBody(t) = TileRaw(t))

\* C21: in the payload of one rectangle no tile carries subencoding 0
\* (background same as previous) before a tile of that rectangle has carried
\* subencoding 2 (background specified).
C21_NoSameBeforeSpecified ==
    \A t \in TilesEmitted : Subencoding(t) = 0 => \E u \in 0..(t - 1) : Subencoding(u) = 2

\* A tile has been pushed as 0.
C21_SameAsPreviousEmitted == \E t \in TilesEmitted : Subencoding(t) = 0

\* ---- tiling
\* The source pixels of tile t of a width x height rectangle cut into tiles
\* of tile_w x tile_h, by index and in row-major order: the tile starts at
\* column tile_w * (t mod H_tiles) and row tile_h * (t div H_tiles) and has
\* what is left of the width and the height at the edges.
TilePixels(width, height, tile_w, tile_h, t) ==
    LET col == tile_w * (t % CeilDiv(width, tile_w))
        row == tile_h * (t \div CeilDiv(width, tile_w))
        w == Min(tile_w, width - col)
        h == Min(tile_h, height - row)
    IN  SubSeq([n \in 1..(w * h) |-> (row + ((n - 1) \div w)) * width + col + ((n - 1) % w)], 1, w * h)

\* The first bytes bytes of each of these 32-bit source pixels.
SourceBytes(raw_pixels, pixels, bytes) ==
    [j \in 1..(Len(pixels) * bytes) |-> raw_pixels[4 * pixels[((j - 1) \div bytes) + 1] + ((j - 1) % bytes) + 1]]

TilesOf(framebuffer, tile_w, tile_h) == CeilDiv(framebuffer.width, tile_w) * CeilDiv(framebuffer.height, tile_h)

\* C22: for every width and height of at least 1 the HEXTILE and the ZRLE
\* encoder go through ceil(w/tile_w) * ceil(h/tile_h) tiles in row-major
\* order, and tile i holds exactly the source pixels from column
\* tile_w * (i mod H_tiles), row tile_h * (i div H_tiles) on, with the
\* remaining width and height at the edges and no padding; no rectangle makes
\* the encoder fail.
C22_TilesCoverSource ==
    /\ hextile_framebuffer.width > 0 /\ hextile_framebuffer.bits_per_pixel = 32 =>
        /\ hextile_ctr # -2
        /\ hextile_ctr <= TilesOf(hextile_framebuffer, HEXTILE_WIDTH, HEXTILE_HEIGHT)
        /\ hextile_ctr >= 1 => hextile_pixels = SourceBytes(hextile_framebuffer.raw_pixels, TilePixels(hextile_framebuffer.width, hextile_framebuffer.height, HEXTILE_WIDTH, HEXTILE_HEIGHT, hextile_ctr - 1), 4)
    /\ zrle_framebuffer.width > 0 =>
        /\ zrletile_ctr # -2
        /\ zrletile_ctr <= TilesOf(zrle_framebuffer, ZRLE_TILE_WIDTH, ZRLE_TILE_HEIGHT)
        /\ zrletile_ctr >= 1 => zrletile_pixels = SourceBytes(zrle_framebuffer.raw_pixels, TilePixels(zrle_framebuffer.width, zrle_framebuffer.height, ZRLE_TILE_WIDTH, ZRLE_TILE_HEIGHT, zrletile_ctr - 1), 3)

\* ---- ZRLE subencodings
\* The CPIXELs of tile t of the rectangle in row-major order.
ZrleTileCPixels(t) == SourceBytes(zrle_framebuffer.raw_pixels, TilePixels(zrle_framebuffer.width, zrle_framebuffer.height, ZRLE_TILE_WIDTH, ZRLE_TILE_HEIGHT, t), 3)

AllCPixelsIdentical(cpixels) == \A n \in 0..((Len(cpixels) \div 3) - 1) : SubSeq(cpixels, 3 * n + 1, 3 * n + 3) = SubSeq(cpixels, 1, 3)

\* What the claim has the encoder emit for tile t.
ZrleTileAsClaimed(t) == IF AllCPixelsIdentical(ZrleTileCPixels(t)) THEN <<1>> \o SubSeq(ZrleTileCPixels(t), 1, 3) ELSE <<0>> \o ZrleTileCPixels(t)

ZrleReturned == zrle_framebuffer.width > 0 /\ zrletile_ctr = TilesOf(zrle_framebuffer, ZRLE_TILE_WIDTH, ZRLE_TILE_HEIGHT)

\* C23: what encode returns is, tile after tile, subencoding 1 and one
\* CPIXEL for a tile whose CPIXELs are all identical and subencoding 0 and the
\* tile's CPIXELs in row-major order for any other tile; no other subencoding
\* occurs.
C23_ZrleSolidOrRaw ==
    ZrleReturned => zrle_tiles = Flatten([k \in 1..zrletile_ctr |-> ZrleTileAsClaimed(k - 1)])

\* encode has returned a rectangle that starts with a raw tile and ends with
\* a solid one.
C23_RawAndSolidReturned == ZrleReturned /\ zrletile_ctr >= 2 /\ zrle_tiles[1] = 0 /\ zrle_tiles[Len(zrle_tiles) - 3] = 1 /\ AllCPixelsIdentical(ZrleTileCPixels(zrletile_ctr - 1))

\* ---- zero-area rectangles
\* C24: a FrameBuffer of width 0 or height 0 yields a rectangle whose
\* encoding is RAW (0), whatever encoder it is handed to; here the encoder
\* the server hands every rectangle to (ZRLE), on the session's stream.
C24_ZeroAreaIsRaw ==
    \A c \in Conns : \A k \in 1..Len(tx[c]) :
        tx[c][k].t = "FramebufferUpdate" =>
            \A n \in 1..Len(tx[c][k].v.update.frame_buffer) :
                LET rectangle == tx[c][k].v.update.frame_buffer[n]
                IN  (rectangle.width = 0 \/ rectangle.height = 0) => rectangle.encoding_type = RAW

\* ---- transcoding
\* C25: for a negotiated PixelFormat with bits_per_pixel 16 or 32 and a
\* captured BGRA buffer of 4*w*h bytes, the transcoded buffer has
\* (bits_per_pixel/8)*w*h bytes, and in every pixel of it the byte at
\* red_shift/8 is the captured red byte (B[4i+2]), the byte at green_shift/8
\* the captured green byte (B[4i+1]) and the byte at blue_shift/8 the captured
\* blue byte (B[4i]).
C25_TranscodedByFormat ==
    tc_pc # "Captured" /\ tc_pc # "Idle" =>
        LET bytes == tc_pixelformat.bits_per_pixel \div 8
            pixels == Len(tc_capture) \div 4
        IN  /\ tc_pc = "Transcoded"
            /\ Len(tc_pixel_data) = bytes * pixels
            /\ \A i \in 0..(pixels - 1) :
                /\ tc_pixel_data[bytes * i + (tc_pixelformat.red_shift \div 8) + 1] = tc_capture[4 * i + 3]
                /\ tc_pixel_data[bytes * i + (tc_pixelformat.green_shift \div 8) + 1] = tc_capture[4 * i + 2]
                /\ tc_pixel_data[bytes * i + (tc_pixelformat.blue_shift \div 8) + 1] = tc_capture[4 * i + 1]

\* ---- GetBits
\* The integer, as bytes from the low one, whose set bits are those of the
\* set indices.
WithBits(width, indices) ==
    [d \in 1..(width \div 8) |-> SumSeq([k \in 1..8 |-> IF (8 * (d - 1) + k - 1) \in indices THEN 2 ^ (k - 1) ELSE 0])]

C26_ShortVectorPadded == gb_width = 16 /\ gb_integer = <<>> /\ Len(gb_bits) = 7 /\ gb_bits[1] /\ gb_from_bits # <<>>

\* ---- HTTP status routes
\* The routes that need a pair key, by the service that has them.
ProtectedRoutes(service) == IF service = "webapi" THEN {"/api/status", "/api/sessions"} ELSE {"/api/power/lock", "/api/power/logoff", "/api/power/shutdown", "/api/power/reboot"}

RequestIsPaired == api_request.pairkey # NoHeader /\ \E hash \in paired_servers : hash.digest = api_request.pairkey

\* C27: a request for /api/status, /api/sessions or /api/power/lock, logoff,
\* shutdown or reboot is acted on and answered with its result only if it
\* carries a pairkey header whose SHA-256 digest is among the paired server
\* hashes; without one the answer is 401 and nothing is done.
C27_PairKeyRequired ==
    (api_response # <<>> /\ api_request.method = "GET" /\ api_request.websocket_version = 0 /\ api_request.uri \in ProtectedRoutes(api_service) /\ ~RequestIsPaired) =>
        (api_response.status = 401 /\ api_action = "none")

\* The same of the daemon's routes alone.
C27_DaemonRoutesNeedPairKey == api_service = "webapi" => C27_PairKeyRequired

\* ---- the daemon
\* C28: when connection k of the worker with pid p, for which the daemon
\* holds a session entry, has had HELLO (p, tcp_addr) and then IP_UPDATE (p,
\* "wss" or "ws", ws_addr) handled, the entry of p has ip = tcp_addr, ws =
\* ws_addr and ws_secure = true for "wss", false for "ws".
C28_HelloThenIpUpdateStored ==
    \A k \in IpcConns : \A tcp_addr \in TcpAddrs, ws_addr \in WsAddrs, update \in {"ws", "wss"} :
        (/\ IpcConns \subseteq DOMAIN ipc_pc
         /\ ipc_pc[k] = "Open"
         /\ ipc_owner[k] \in DOMAIN WTS_SESSIONS
         /\ ipc_handled[k] = <<HelloMsg(ipc_owner[k], tcp_addr), IpUpdateMsg(ipc_owner[k], update, ws_addr)>>) =>
            WTS_SESSIONS[ipc_owner[k]] = [ip |-> tcp_addr, ws |-> ws_addr, ws_secure |-> (update = "wss")]

\* The message handle_client matches in this step on connection k.
MatchedNow(k) == ipc_handled'[k][Len(ipc_handled'[k])]

\* C29: a HELLO handled for a pid that has no session entry creates an
\* entry for that pid, which holds the announced address.
C29_HelloCreatesEntry ==
    [][\A k \in IpcConns :
        (ipc_handled'[k] # ipc_handled[k] /\ MatchedNow(k).opcode = "HELLO" /\ MatchedNow(k).data[1] \notin DOMAIN WTS_SESSIONS) =>
            (MatchedNow(k).data[1] \in DOMAIN WTS_SESSIONS' /\ WTS_SESSIONS'[MatchedNow(k).data[1]].ip = MatchedNow(k).data[2])]_vars

\* What the claim requires of the turn of connection k that meets the end
\* of the stream.
DisconnectsAsClaimed(k) ==
    /\ ipc_fired' = Append(ipc_fired, <<"DISCONNECT", <<ipc_owner[k]>>>>)
    /\ WTS_SESSIONS' = SessionsWithout(WTS_SESSIONS, ipc_owner[k])
    /\ \A j \in IpcConns \ {k} : ipc_pc'[j] = ipc_pc[j] /\ ipc_unread'[j] = ipc_unread[j]

\* C30: when the connection of a worker reaches the end of the stream,
\* DISCONNECT is emitted for the worker's pid, the entry of that pid is
\* removed, the other entries stay as they are and the other connections go on
\* being served; also when no HELLO was received on the connection.
C30_EofDropsThatPidOnly ==
    [][\A k \in IpcConns : (ipc_pc[k] = "Open" /\ ipc_pc'[k] # "Open") => DisconnectsAsClaimed(k)]_vars

\* The same of the connections on which a HELLO was received.
C30_EofAfterHello ==
    [][\A k \in IpcConns : (ipc_pc[k] = "Open" /\ ipc_pc'[k] # "Open" /\ client_pid[k] # <<>>) => DisconnectsAsClaimed(k)]_vars

\* The stored address of a HELLO handled while the pid had an entry.
C29_HelloUpdatesEntry ==
    [][\A k \in IpcConns :
        (ipc_handled'[k] # ipc_handled[k] /\ MatchedNow(k).opcode = "HELLO" /\ MatchedNow(k).data[1] \in DOMAIN WTS_SESSIONS) =>
            WTS_SESSIONS'[MatchedNow(k).data[1]].ip = MatchedNow(k).data[2]]_vars

\* ---- IPC packets
\* C31: every IPC frame written is the opcode byte, a length byte equal to
\* the number of payload bytes that follow, and the payload, for every payload
\* the code constructs, the acknowledgement of IP_UPDATE included; the reader
\* finds the next opcode at the next frame boundary, so that it reads the
\* packet and the PONG after it as they were written.
C31_PacketIsOpcodeLengthPayload ==
    /\ cp_written # <<>> =>
        /\ cp_written[1] = cp_opcode
        /\ cp_written[2] = Len(cp_payload)
        /\ SubSeq(cp_written, 3, 2 + Len(cp_payload)) = cp_payload
    /\ cp_frames # <<>> => cp_frames = <<[opcode |-> cp_opcode, payload |-> cp_payload], [opcode |-> IpcEvent_PONG, payload |-> PongText]>>

\* The same of the packets whose payload has at most 255 bytes.
C31_ShortPacketsFramed == Len(cp_payload) <= 255 => C31_PacketIsOpcodeLengthPayload

\* ---- IPC link
\* C32: when the daemon has closed the IPC socket, the worker's IPC client
\* ends the whole worker process at its next header read: once a read of the
\* worker has met the daemon's end of stream, the worker is not running.
C32_WorkerExitsOnDaemonEof == eof_observed => link_pc["worker"] = "Exited"

\* The same of the header read alone: a header read that meets the end of
\* the stream exits the process.
C32_HeaderEofExits ==
    [][(link_pc["worker"] = "Header" /\ link_pc'["worker"] # "Header" /\ AtEof("worker") /\ link_closed' = link_closed /\ Len(link_rx["worker"]) < 2) => link_pc'["worker"] = "Exited"]_vars

\* C36: a header read that the timeout cuts off discards no byte that had
\* been received: on each side of the IPC link the bytes taken as headers and
\* payloads, followed by the bytes not yet read, are the bytes the peer wrote,
\* in order.
C36_NoByteDiscarded ==
    \A side \in Sides : Sides \subseteq DOMAIN link_taken => link_taken[side] \o link_rx[side] \o link_wire[side] = link_sent[side]

\* C38: every packet appended to the endpoint's queue in the daemon, one
\* appended by send_ping while the write branch is at work included, is written
\* exactly once and in the order of appending: outside the write branch the
\* packets written and then the packets queued are the packets appended.
C38_AppendedWrittenOnce ==
    (Sides \subseteq DOMAIN link_pc /\ link_pc["daemon"] # "Flush") => link_written["daemon"] \o link_pending["daemon"] = link_pushed["daemon"]

\* The same while no send_ping has been made.
C38_OwnRepliesWrittenOnce == pings = 0 => C38_AppendedWrittenOnce

Occurrences(packets, packet) == Cardinality({i \in 1..Len(packets) : packets[i] = packet})

HelloPacket == construct_payload(IpcEvent_HELLO, HelloText)

IpUpdatePacket == construct_payload(IpcEvent_IP_UPDATE, IpUpdateText)

\* C39: the worker writes its HELLO before its IP_UPDATE and each exactly
\* once, however the start of the RFB listener, the start of the WebSocket
\* bridge and the connect and write loop of the IPC client interleave: neither
\* is written twice, IP_UPDATE is written only after HELLO, and when both have
\* been queued and the loop has emptied the queue both have been written.
C39_HelloBeforeIpUpdateOnce ==
    Sides \subseteq DOMAIN link_pc =>
        LET written == link_written["worker"]
        IN  /\ Occurrences(written, HelloPacket) <= 1
            /\ Occurrences(written, IpUpdatePacket) <= 1
            /\ \A i \in 1..Len(written) : written[i] = IpUpdatePacket => \E j \in 1..(i - 1) : written[j] = HelloPacket
            /\ (link_pc["worker"] \in {"Header", "Payload"} /\ websocket_pc = "IpUpdateSent" /\ link_pending["worker"] = <<>>) =>
                    (Occurrences(written, HelloPacket) = 1 /\ Occurrences(written, IpUpdatePacket) = 1)

\* The worker has written its HELLO and then its IP_UPDATE, and the daemon
\* has read both.
C39_BothWrittenInOrder ==
    /\ link_written["worker"] = <<HelloPacket, IpUpdatePacket>>
    /\ link_sent["daemon"] = HelloPacket \o IpUpdatePacket
    /\ link_taken["daemon"] = link_sent["daemon"]

OpcodeCount(packets, event) == Cardinality({i \in 1..Len(packets) : packets[i][1] = event})

ReadCount(side, event) == Cardinality({i \in 1..Len(link_read[side]) : link_read[side][i] = event})

\* C40: each PING read makes its reader queue exactly one PONG, and a PONG
\* read makes its reader queue nothing; so what one IP_UPDATE starts is the
\* daemon's acknowledgement, a PING, and the worker's PONG, and ends there.
\* On each side the PONGs queued are as many as the PINGs read; the daemon
\* queues no PING but one for each IP_UPDATE read and each send_ping, and the
\* worker nothing else but its HELLO and its IP_UPDATE.
C40_PingPongEnds ==
    Sides \subseteq DOMAIN link_pc =>
        /\ \A side \in Sides : OpcodeCount(link_pushed[side], IpcEvent_PONG) = ReadCount(side, IpcEvent_PING)
        /\ OpcodeCount(link_pushed["daemon"], IpcEvent_PING) = ReadCount("daemon", IpcEvent_IP_UPDATE) + pings
        /\ Len(link_pushed["daemon"]) = OpcodeCount(link_pushed["daemon"], IpcEvent_PING) + OpcodeCount(link_pushed["daemon"], IpcEvent_PONG)
        /\ Len(link_pushed["worker"]) <= 2 + OpcodeCount(link_pushed["worker"], IpcEvent_PONG)

\* The exchange is over: the daemon has read the worker's PONG to its
\* acknowledgement, and nothing is queued or on its way.
C40_ExchangeOver ==
    /\ pings = 0
    /\ link_read["daemon"] = <<IpcEvent_HELLO, IpcEvent_IP_UPDATE, IpcEvent_PONG>>
    /\ link_read["worker"] = <<IpcEvent_PING>>
    /\ \A side \in Sides : link_pending[side] = <<>> /\ link_wire[side] = <<>> /\ link_rx[side] = <<>>

\* ---------------------------------------------------------------- encoders
\* The four get_pixel_data functions on one FrameBuffer, as the match in
\* rectangle_framebuffer_update calls them.
MaxPosition == 2

MaxSide == 2

\* raw_pixels of a width x height rectangle of 32 bits per pixel: one colour,
\* or a colour for each pixel.
EncoderPixels(width, height, plain) ==
    [j \in 1..(width * height * 4) |-> IF j % 4 = 0 THEN 255 ELSE IF plain THEN 7 ELSE (j - 1) \div 4]

\* framebuffer_struct before the match: encoding RAW, encoded_pixels empty.
EncoderFrameBuffers ==
    {[x_position |-> x, y_position |-> y, width |-> width, height |-> height,
      bits_per_pixel |-> 32, raw_pixels |-> EncoderPixels(width, height, plain),
      encoding |-> RAW, encoded_pixels |-> <<>>] :
        x \in 0..MaxPosition, y \in 0..MaxPosition,
        width \in 0..MaxSide, height \in 0..MaxSide, plain \in BOOLEAN}

\* The viewer's stream: as create_stream left it, or after an earlier
\* deflate that took input and ended in a sync flush.
EncoderStreams == {NewZStream, zlib_deflate(deflateInit2_(NewZStream, Z_OK), <<255>>)}

\* encoding_raw::get_pixel_data
raw_get_pixel_data(framebuffer) ==
    [x_position |-> framebuffer.x_position, y_position |-> framebuffer.x_position,
     width |-> framebuffer.width, height |-> framebuffer.height,
     encoding_type |-> RAW, encoded_pixels |-> framebuffer.raw_pixels,
     encoded_pixels_length |-> 0]

\* encoding_hextile::encode: the bytes pushed by the loop over the tiles,
\* from tile ctr on.
RECURSIVE hextile_tiles_from(_, _, _, _, _)
hextile_tiles_from(fb, ctr, previous, solid, previous_colour) ==
    IF ctr >= v_tiles(fb) * h_tiles(fb) THEN <<>>
    ELSE LET after == hextile_tile(fb, ctr, previous, solid, previous_colour)
         IN  after.emitted \o hextile_tiles_from(fb, ctr + 1, after.previous_scan_line, after.solid_tile, after.solid_previous_tile)

\* encoding_hextile::get_pixel_data
hextile_get_pixel_data(framebuffer) ==
    LET framebuffer_rectangle ==
            [x_position |-> framebuffer.x_position, y_position |-> framebuffer.y_position,
             width |-> framebuffer.width, height |-> framebuffer.height,
             encoding_type |-> RAW, encoded_pixels |-> framebuffer.raw_pixels,
             encoded_pixels_length |-> 0]
    IN  IF framebuffer.width > 0 /\ framebuffer.height > 0
        THEN [framebuffer_rectangle EXCEPT
                !.encoding_type = HEX_TILE,
                !.encoded_pixels = hextile_tiles_from(framebuffer, 0, <<>>, TRUE, <<>>)]
        ELSE framebuffer_rectangle

\* encoding_zlib::get_pixel_data
zlib_get_pixel_data(framebuffer, zlib_stream, deflate_init_status) ==
    deflate(framebuffer, zlib_stream, deflate_init_status)

InitEncoders ==
    /\ ServerIdle
    /\ BridgeIdle
    /\ FramerIdle
    /\ HextileIdle
    /\ ZrleIdle
    /\ TranscodeIdle
    /\ BitsIdle
    /\ ApiIdle
    /\ IpcIdle
    /\ PacketIdle
    /\ LinkIdle
    /\ LocksIdle
    /\ TasksIdle
    /\ EofIdle
    /\ enc_framebuffer \in EncoderFrameBuffers
    /\ enc_stream \in EncoderStreams
    /\ enc_encoder = ""
    /\ enc_rectangle = <<>>

\* The RAW arm of the match.
encode_raw ==
    /\ enc_encoder = ""
    /\ enc_encoder' = "RAW"
    /\ enc_rectangle' = <<raw_get_pixel_data([enc_framebuffer EXCEPT !.encoding = RAW])>>
    /\ UNCHANGED <<enc_framebuffer, enc_stream>>
    /\ UNCHANGED encoders_rest

\* The HEX_TILE arm.
encode_hextile ==
    /\ enc_encoder = ""
    /\ enc_encoder' = "HEX_TILE"
    /\ enc_rectangle' = <<hextile_get_pixel_data([enc_framebuffer EXCEPT !.encoding = HEX_TILE])>>
    /\ UNCHANGED <<enc_framebuffer, enc_stream>>
    /\ UNCHANGED encoders_rest

\* The ZLIB arm: encoded_pixels stays as framebuffer_struct was built.
encode_zlib ==
    /\ enc_encoder = ""
    /\ \E got \in {zlib_get_pixel_data([enc_framebuffer EXCEPT !.encoding = ZLIB], enc_stream, Z_OK)} :
            /\ got.rect.encoding_type = ZLIB
            /\ enc_rectangle' = <<got.rect>>
            /\ enc_stream' = got.stream
    /\ enc_encoder' = "ZLIB"
    /\ UNCHANGED enc_framebuffer
    /\ UNCHANGED encoders_rest

\* The ZRLE arm.
encode_zrle ==
    /\ enc_encoder = ""
    /\ \E got \in {zrle_get_pixel_data([enc_framebuffer EXCEPT !.encoding = ZRLE], enc_stream, Z_OK)} :
            /\ got.rect.encoding_type = ZRLE
            /\ enc_rectangle' = <<got.rect>>
            /\ enc_stream' = got.stream
    /\ enc_encoder' = "ZRLE"
    /\ UNCHANGED enc_framebuffer
    /\ UNCHANGED encoders_rest

\* deflate returns the rectangle it built before compressing: libz reported
\* no progress for an empty input after a sync flush.
encode_deflate_fallback ==
    /\ enc_encoder = ""
    /\ \E encoding \in {ZLIB, ZRLE} :
        \E got \in {IF encoding = ZLIB
                    THEN zlib_get_pixel_data([enc_framebuffer EXCEPT !.encoding = ZLIB], enc_stream, Z_OK)
                    ELSE zrle_get_pixel_data([enc_framebuffer EXCEPT !.encoding = ZRLE], enc_stream, Z_OK)} :
            /\ got.rect.encoding_type = RAW
            /\ enc_rectangle' = <<got.rect>>
            /\ enc_stream' = got.stream
    /\ enc_encoder' = "deflate fallback"
    /\ UNCHANGED enc_framebuffer
    /\ UNCHANGED encoders_rest

NextEncoders == encode_raw \/ encode_hextile \/ encode_zlib \/ encode_zrle \/ encode_deflate_fallback

SpecEncoders == InitEncoders /\ [][NextEncoders]_vars

SamePlace(rectangle, framebuffer) ==
    /\ rectangle.x_position = framebuffer.x_position
    /\ rectangle.y_position = framebuffer.y_position
    /\ rectangle.width = framebuffer.width
    /\ rectangle.height = framebuffer.height

\* C35: whichever encoder ran, the rectangle it returned has the x, y, width
\* and height of the FrameBuffer it was given.
C35_RectangleKeepsPlace ==
    enc_encoder # "" => SamePlace(enc_rectangle[1], enc_framebuffer)

\* Every encoder but RAW returns the rectangle in the place of its input.
C35_OthersKeepPlace ==
    enc_encoder \notin {"", "RAW"} => SamePlace(enc_rectangle[1], enc_framebuffer)

\* RAW keeps the place of a rectangle on the diagonal.
C35_RawOnDiagonal ==
    (enc_encoder = "RAW" /\ enc_framebuffer.x_position = enc_framebuffer.y_position) =>
        SamePlace(enc_rectangle[1], enc_framebuffer)

\* ------------------------------------------------------------------- locks
\* The guards of the shared state as tasks take and drop them: the daemon's
\* handle_client tasks, its HTTP task and its service thread, and a viewer
\* task of the worker.
IpcTasks == {"handle_client 1", "handle_client 2"}

LockTasks == IpcTasks \cup {"webapi", "service", "viewer"}

\* The functions that take one guard and drop it when they return: the
\* lock and the mode each asks for.
LockCalls(task) ==
    IF task \in IpcTasks
    THEN {[fn |-> "init_pending_writes", lock |-> "PENDING_WRITES", mode |-> "write"],
          [fn |-> "push_pending_writes", lock |-> "PENDING_WRITES", mode |-> "write"],
          [fn |-> "get_pending_writes", lock |-> "PENDING_WRITES", mode |-> "read"],
          [fn |-> "set_pending_writes", lock |-> "PENDING_WRITES", mode |-> "write"]}
    ELSE IF task = "webapi"
    THEN {[fn |-> "webapi_getsessions", lock |-> "WTS_SESSIONS", mode |-> "read"]}
    ELSE IF task = "service"
    THEN {[fn |-> "create_wts_session", lock |-> "WTS_SESSIONS", mode |-> "write"]}
    ELSE {[fn |-> "create_stream", lock |-> "LIVE_ZSTREAMS", mode |-> "write"],
          [fn |-> "deflate", lock |-> "LIVE_ZSTREAMS", mode |-> "write"],
          [fn |-> "flush_stream", lock |-> "LIVE_ZSTREAMS", mode |-> "write"]}

\* RwLock: a writer excludes everyone, a reader excludes writers.
lock_granted(held, lock, mode) ==
    \A other \in DOMAIN held :
        /\ <<lock, "write">> \notin held[other]
        /\ mode = "write" => <<lock, "read">> \notin held[other]

InitLocks ==
    /\ ServerIdle
    /\ BridgeIdle
    /\ FramerIdle
    /\ HextileIdle
    /\ ZrleIdle
    /\ TranscodeIdle
    /\ BitsIdle
    /\ ApiIdle
    /\ IpcIdle
    /\ PacketIdle
    /\ LinkIdle
    /\ EncodersIdle
    /\ TasksIdle
    /\ EofIdle
    /\ lock_pc = [task \in LockTasks |-> ""]
    /\ lock_held = [task \in LockTasks |-> {}]

\* A function of LockCalls is entered and its guard is granted.
lock_call(task) ==
    /\ lock_pc[task] = ""
    /\ \E call \in LockCalls(task) :
            /\ lock_granted(lock_held, call.lock, call.mode)
            /\ lock_pc' = [lock_pc EXCEPT ![task] = call.fn]
            /\ lock_held' = [lock_held EXCEPT ![task] = @ \cup {<<call.lock, call.mode>>}]
    /\ UNCHANGED locks_rest

\* It returns; the guard is dropped.
lock_return(task) ==
    /\ \E call \in LockCalls(task) :
            /\ lock_pc[task] = call.fn
            /\ lock_held' = [lock_held EXCEPT ![task] = @ \ {<<call.lock, call.mode>>}]
    /\ lock_pc' = [lock_pc EXCEPT ![task] = ""]
    /\ UNCHANGED locks_rest

\* event::fire for HELLO or DISCONNECT: EVENT_LISTENERS.read().await
fire_read_listeners(task) ==
    /\ task \in IpcTasks
    /\ lock_pc[task] = ""
    /\ lock_granted(lock_held, "EVENT_LISTENERS", "read")
    /\ lock_pc' = [lock_pc EXCEPT ![task] = "fire"]
    /\ lock_held' = [lock_held EXCEPT ![task] = @ \cup {<<"EVENT_LISTENERS", "read">>}]
    /\ UNCHANGED locks_rest

\* fire calls the listener, process_hello or process_disconnect, which
\* takes WTS_SESSIONS.write().
listener_write_sessions(task) ==
    /\ lock_pc[task] = "fire"
    /\ lock_granted(lock_held, "WTS_SESSIONS", "write")
    /\ lock_pc' = [lock_pc EXCEPT ![task] = "listener"]
    /\ lock_held' = [lock_held EXCEPT ![task] = @ \cup {<<"WTS_SESSIONS", "write">>}]
    /\ UNCHANGED locks_rest

\* The listener returns to fire's loop.
listener_return(task) ==
    /\ lock_pc[task] = "listener"
    /\ lock_pc' = [lock_pc EXCEPT ![task] = "fired"]
    /\ lock_held' = [lock_held EXCEPT ![task] = @ \ {<<"WTS_SESSIONS", "write">>}]
    /\ UNCHANGED locks_rest

\* fire returns.
fire_return(task) ==
    /\ lock_pc[task] = "fired"
    /\ lock_pc' = [lock_pc EXCEPT ![task] = ""]
    /\ lock_held' = [lock_held EXCEPT ![task] = @ \ {<<"EVENT_LISTENERS", "read">>}]
    /\ UNCHANGED locks_rest

NextLocks ==
    \E task \in LockTasks :
        \/ lock_call(task)
        \/ lock_return(task)
        \/ fire_read_listeners(task)
        \/ listener_write_sessions(task)
        \/ listener_return(task)
        \/ fire_return(task)

SpecLocks == InitLocks /\ [][NextLocks]_vars

LocksHeldBy(task) == {guard[1] : guard \in lock_held[task]}

\* C33: no task holds the guards of two of the shared structures at once.
C33_OneLockAtATime ==
    LockTasks \subseteq DOMAIN lock_held =>
        \A task \in LockTasks : Cardinality(LocksHeldBy(task)) <= 1

\* Outside a listener called by fire every task holds one guard at most.
C33_OnlyListenersNest ==
    LockTasks \subseteq DOMAIN lock_held =>
        \A task \in LockTasks : lock_pc[task] # "listener" => Cardinality(LocksHeldBy(task)) <= 1

\* The guards exclude as a readers-writer lock does.
C33_WritersAlone ==
    LockTasks \subseteq DOMAIN lock_held =>
        \A task \in LockTasks : \A guard \in lock_held[task] :
            guard[2] = "write" => \A other \in LockTasks \ {task} : guard[1] \notin LocksHeldBy(other)

\* ------------------------------------------------------------------- tasks
\* The worker's tasks: main awaiting server::create and its accept loop, the
\* task of websocket::create, and one task per accepted viewer.
MaxViewers == 2

MaxDeflates == 2

Viewers == 1..MaxViewers

InitTasks ==
    /\ ServerIdle
    /\ BridgeIdle
    /\ FramerIdle
    /\ HextileIdle
    /\ ZrleIdle
    /\ TranscodeIdle
    /\ BitsIdle
    /\ ApiIdle
    /\ IpcIdle
    /\ PacketIdle
    /\ LinkIdle
    /\ EncodersIdle
    /\ LocksIdle
    /\ EofIdle
    /\ rfb_listener = "accepting"
    /\ ws_listener = "accepting"
    /\ viewer_task = [v \in Viewers |-> "none"]
    /\ ws_accepted = 0
    /\ deflates = [v \in Viewers |-> 0]
    /\ zstreams_poisoned = FALSE
    /\ worker_process = "running"

\* server::create: listener.accept() returns a client, and its task is
\* spawned.
rfb_accept(v) ==
    /\ rfb_listener = "accepting"
    /\ viewer_task[v] = "none"
    /\ viewer_task' = [viewer_task EXCEPT ![v] = "spawned"]
    /\ UNCHANGED <<rfb_listener, ws_listener, ws_accepted, deflates, zstreams_poisoned, worker_process>>
    /\ UNCHANGED tasks_rest

\* listener.accept().await? with an error: create returns it, main drops it
\* with unwrap_or and returns, and the runtime goes down with every task
\* that is still there.
rfb_accept_fails ==
    /\ rfb_listener = "accepting"
    /\ rfb_listener' = "returned"
    /\ worker_process' = "exited"
    /\ viewer_task' = [v \in Viewers |-> IF viewer_task[v] \in {"spawned", "serving"} THEN "cancelled" ELSE viewer_task[v]]
    /\ ws_listener' = IF ws_listener = "accepting" THEN "cancelled" ELSE ws_listener
    /\ UNCHANGED <<ws_accepted, deflates, zstreams_poisoned>>
    /\ UNCHANGED tasks_rest

\* websocket::create: a client is accepted and its task spawned.
ws_accept ==
    /\ ws_listener = "accepting"
    /\ ws_accepted < MaxViewers
    /\ ws_accepted' = ws_accepted + 1
    /\ UNCHANGED <<rfb_listener, ws_listener, viewer_task, deflates, zstreams_poisoned, worker_process>>
    /\ UNCHANGED tasks_rest

\* listener.accept().await? with an error in websocket::create: create
\* returns it to the task server::create spawned, which unwraps it.
ws_accept_fails ==
    /\ ws_listener = "accepting"
    /\ ws_listener' = "panicked"
    /\ UNCHANGED <<rfb_listener, viewer_task, ws_accepted, deflates, zstreams_poisoned, worker_process>>
    /\ UNCHANGED tasks_rest

\* The handshake is through: create_stream takes LIVE_ZSTREAMS.write()
\* and unwraps it.
viewer_create_stream(v) ==
    /\ viewer_task[v] = "spawned"
    /\ viewer_task' = [viewer_task EXCEPT ![v] = IF zstreams_poisoned THEN "panicked on poison" ELSE "serving"]
    /\ UNCHANGED <<rfb_listener, ws_listener, ws_accepted, deflates, zstreams_poisoned, worker_process>>
    /\ UNCHANGED tasks_rest

\* deflate for an update of v: LIVE_ZSTREAMS.write().unwrap() and the call.
viewer_deflate(v) ==
    /\ viewer_task[v] = "serving"
    /\ deflates[v] < MaxDeflates
    /\ viewer_task' = [viewer_task EXCEPT ![v] = IF zstreams_poisoned THEN "panicked on poison" ELSE @]
    /\ deflates' = [deflates EXCEPT ![v] = IF zstreams_poisoned THEN @ ELSE @ + 1]
    /\ UNCHANGED <<rfb_listener, ws_listener, ws_accepted, zstreams_poisoned, worker_process>>
    /\ UNCHANGED tasks_rest

\* A panic between taking the guard and returning, as println! raises when
\* stdout cannot be written: the guard is dropped while panicking.
viewer_panics_in_deflate(v) ==
    /\ viewer_task[v] = "serving"
    /\ ~zstreams_poisoned
    /\ viewer_task' = [viewer_task EXCEPT ![v] = "panicked"]
    /\ zstreams_poisoned' = TRUE
    /\ UNCHANGED <<rfb_listener, ws_listener, ws_accepted, deflates, worker_process>>
    /\ UNCHANGED tasks_rest

\* An I/O error, a malformed message or a panic with no guard held: the
\* task of v ends.
viewer_fails(v) ==
    /\ viewer_task[v] \in {"spawned", "serving"}
    /\ viewer_task' = [viewer_task EXCEPT ![v] = "failed"]
    /\ UNCHANGED <<rfb_listener, ws_listener, ws_accepted, deflates, zstreams_poisoned, worker_process>>
    /\ UNCHANGED tasks_rest

NextTasks ==
    \/ rfb_accept_fails
    \/ ws_accept
    \/ ws_accept_fails
    \/ \E v \in Viewers :
        \/ rfb_accept(v)
        \/ viewer_create_stream(v)
        \/ viewer_deflate(v)
        \/ viewer_panics_in_deflate(v)
        \/ viewer_fails(v)

SpecTasks == InitTasks /\ [][NextTasks]_vars

\* C34: no viewer's task is ended by what happened in another task, and
\* both accept loops go on accepting.
C34_FailuresStayInTheirTask ==
    worker_process # "" =>
        /\ \A v \in Viewers : viewer_task[v] \notin {"panicked on poison", "cancelled"}
        /\ rfb_listener = "accepting"
        /\ ws_listener = "accepting"

\* A task that fails with no guard held changes nothing but its own state.
C34_PlainFailureIsolated ==
    [][\A v \in Viewers : viewer_fails(v) =>
            /\ \A w \in Viewers \ {v} : viewer_task'[w] = viewer_task[w]
            /\ rfb_listener' = rfb_listener /\ ws_listener' = ws_listener
            /\ worker_process' = worker_process /\ zstreams_poisoned' = zstreams_poisoned]_vars

\* While no accept call has failed and no task has panicked inside deflate,
\* every task but the failed ones is where its own steps put it.
C34_NoHarmWithoutThose ==
    (worker_process = "running" /\ ~zstreams_poisoned /\ ws_listener = "accepting") =>
        /\ rfb_listener = "accepting"
        /\ \A v \in Viewers : viewer_task[v] \in {"none", "spawned", "serving", "failed"}

\* ------------------------------------------------- the bridge at RFB's end
\* proxy_websocket with an RFB server that closes its end.
MaxEofFrames == 2

bridge_eof_rest == <<rfbvars, framevars, hextilevars, zrlevars, transcodevars, bitsvars, apivars, ipcvars, packetvars, linkvars, encvars, lockvars, taskvars>>

\* The RFB server closes the connection: what it wrote before is still to
\* be read.
rfb_closes ==
    /\ ws_pc = "Loop"
    /\ ~rfb_eof
    /\ rfb_eof' = TRUE
    /\ UNCHANGED eof_at
    /\ UNCHANGED <<wsvars, bridge_eof_rest>>

\* The header read timed out and remote.read returns Ok(0) at once: a
\* binary frame with no payload is queued behind the pending writes, and all
\* are written.
ws_rx_timeout_eof ==
    /\ ws_pc = "Loop"
    /\ Len(client_rx) < 2
    /\ ~(client_closed /\ in_flight = <<>>)
    /\ rfb_eof /\ remote_rx = <<>>
    /\ eof_at = -1 \/ Len(client_written) < eof_at + MaxEofFrames
    /\ client_rx' = <<>>
    /\ client_written' = client_written \o Append(pending_writes, create_frame(<<>>, BINARY_FRAME, FALSE))
    /\ eof_at' = IF eof_at = -1 THEN Len(client_written) + Len(pending_writes) ELSE eof_at
    /\ pending_writes' = <<>>
    /\ UNCHANGED <<ws_pc, in_flight, ws_sent, fin_payload, fin_payload_opcode, ws_handled, remote_written, remote_rx, remote_shutdown, client_closed>>
    /\ UNCHANGED rfb_eof
    /\ UNCHANGED bridge_eof_rest

NextBridgeEof == NextBridge \/ rfb_closes \/ ws_rx_timeout_eof

SpecBridgeEof == InitBridge /\ [][NextBridgeEof]_vars

IsBinaryFrame(frame) == frame[1] % 16 = BINARY_FRAME

IsCloseReply(frame) == frame \in {close_normal, close_shutdown_failed}

\* C37: no binary frame is written to the client behind the reply to its
\* Close frame, none once remote.read has returned 0, and the loop has
\* ended by the time anything else is written after either.
C37_NoBinaryAfterCloseOrEof ==
    /\ \A i \in 1..Len(client_written) : \A j \in (i + 1)..Len(client_written) :
            IsCloseReply(client_written[i]) => ~IsBinaryFrame(client_written[j])
    /\ eof_at >= 0 => \A j \in (eof_at + 1)..Len(client_written) : ~IsBinaryFrame(client_written[j])

\* Once the loop has ended nothing is written to the client.
C37_EndedLoopWritesNothing == [][(ws_pc \in {"Returned", "Panicked"}) => (client_written' = client_written)]_vars

\* The reply to a Close frame is written, and it is the frame of status
\* 1000 or 1011.
C37_CloseReplied ==
    \A i \in 1..Len(client_written) :
        client_written[i][1] % 16 = CONNECTION_CLOSE =>
            \/ IsCloseReply(client_written[i])
            \/ client_written[i] \in {close_not_masked, close_connection_failed}
====
